---- MODULE Spec2Model ----
(***************************************************************************)
(* Vinyl scrobbler: the scrobble orchestration pipeline (the Pub/Sub       *)
(* triggered cloud function in its five entry-point variants), modelled as *)
(* a state machine.  One event is delivered to one variant; the handler    *)
(* runs Resolver -> Fetcher -> Submitter, each external call being a       *)
(* request step followed by a reply step; the transport redelivers an      *)
(* event whose invocation failed.                                          *)
(***************************************************************************)
EXTENDS Integers, Sequences, FiniteSets, TLC

(***************************************************************************)
(* Text.  A JavaScript string is a sequence of character codes (ASCII).    *)
(***************************************************************************)
UpperChars ==
    <<"A","B","C","D","E","F","G","H","I","J","K","L","M",
      "N","O","P","Q","R","S","T","U","V","W","X","Y","Z">>

LowerChars ==
    <<"a","b","c","d","e","f","g","h","i","j","k","l","m",
      "n","o","p","q","r","s","t","u","v","w","x","y","z">>

DigitChars ==
    <<"0","1","2","3","4","5","6","7","8","9">>

PunctCode ==
    [c \in {" ", "\"", "+", ",", ".", "/", ":", "=", "[", "]", "_", "{", "}"} |->
        CASE c = " "  -> 32
          [] c = "\"" -> 34
          [] c = "+"  -> 43
          [] c = ","  -> 44
          [] c = "."  -> 46
          [] c = "/"  -> 47
          [] c = ":"  -> 58
          [] c = "="  -> 61
          [] c = "["  -> 91
          [] c = "]"  -> 93
          [] c = "_"  -> 95
          [] c = "{"  -> 123
          [] c = "}"  -> 125]

IndexIn(q, c) ==
    CHOOSE i \in 1..Len(q) : q[i] = c

Code(c) ==
    IF \E i \in 1..26 : UpperChars[i] = c THEN 64 + IndexIn(UpperChars, c)
    ELSE IF \E i \in 1..26 : LowerChars[i] = c THEN 96 + IndexIn(LowerChars, c)
    ELSE IF \E i \in 1..10 : DigitChars[i] = c THEN 47 + IndexIn(DigitChars, c)
    ELSE PunctCode[c]

\* The string literal written as the sequence of its characters.
RECURSIVE S(_)
S(q) ==
    IF q = <<>> THEN <<>> ELSE <<Code(Head(q))>> \o S(Tail(q))

SeqMin(set) ==
    CHOOSE m \in set : \A k \in set : m <= k

SeqMax(set) ==
    CHOOSE m \in set : \A k \in set : m >= k

\* ECMAScript WhiteSpace and LineTerminator code points below 128.
IsSpace(c) ==
    c \in {9, 10, 11, 12, 13, 32}

\* String.prototype.toLowerCase on ASCII text.
ToLowerCase(s) ==
    [i \in 1..Len(s) |-> IF s[i] \in 65..90 THEN s[i] + 32 ELSE s[i]]

\* String.prototype.trim
Trim(s) ==
    LET keep == {i \in 1..Len(s) : ~IsSpace(s[i])}
    IN  IF keep = {} THEN <<>> ELSE SubSeq(s, SeqMin(keep), SeqMax(keep))

(***************************************************************************)
(* JavaScript values: undefined, null, strings, numbers, objects.          *)
(***************************************************************************)
JsUndefined ==
    [t |-> "undefined"]

JsNull ==
    [t |-> "null"]

JsStr(s) ==
    [t |-> "string", s |-> s]

JsNum(n) ==
    [t |-> "number", n |-> n]

\* ToBoolean: what `if (v)` and `!v` test.
Truthy(v) ==
    CASE v.t = "undefined" -> FALSE
      [] v.t = "null"      -> FALSE
      [] v.t = "string"    -> v.s # <<>>
      [] v.t = "number"    -> v.n # 0
      [] OTHER             -> TRUE

\* An Error object: `code` and `details` as the store client sets them (code 0
\* and hasDetails FALSE when the property is absent), `message` as a sequence
\* of text fragments, `apiCode` the Last.fm error code a message embeds.
JsError(name, message) ==
    [t |-> "error", name |-> name, code |-> 0, hasDetails |-> FALSE, details |-> "",
     message |-> message, apiCode |-> 0, cause |-> <<>>]

(***************************************************************************)
(* Base64, as Pub/Sub encodes message data and Buffer.from(x, 'base64')    *)
(* decodes it.                                                             *)
(***************************************************************************)
B64Chars ==
    S(UpperChars \o LowerChars \o DigitChars \o <<"+", "/">>)

B64Value(c) ==
    (CHOOSE i \in 1..64 : B64Chars[i] = c) - 1

RECURSIVE B64Encode(_)
B64Encode(bytes) ==
    LET n   == Len(bytes)
        pad == Code("=")
        ch(v) == B64Chars[v + 1]
    IN  IF n = 0 THEN <<>>
        ELSE IF n = 1 THEN
            << ch(bytes[1] \div 4), ch((bytes[1] % 4) * 16), pad, pad >>
        ELSE IF n = 2 THEN
            << ch(bytes[1] \div 4),
               ch((bytes[1] % 4) * 16 + bytes[2] \div 16),
               ch((bytes[2] % 16) * 4), pad >>
        ELSE
            << ch(bytes[1] \div 4),
               ch((bytes[1] % 4) * 16 + bytes[2] \div 16),
               ch((bytes[2] % 16) * 4 + bytes[3] \div 64),
               ch(bytes[3] % 64) >> \o B64Encode(SubSeq(bytes, 4, n))

RECURSIVE B64DecodeSextets(_)
B64DecodeSextets(v) ==
    LET n == Len(v)
    IN  IF n < 2 THEN <<>>
        ELSE IF n = 2 THEN << v[1] * 4 + v[2] \div 16 >>
        ELSE IF n = 3 THEN
            << v[1] * 4 + v[2] \div 16, (v[2] % 16) * 16 + v[3] \div 4 >>
        ELSE
            << v[1] * 4 + v[2] \div 16,
               (v[2] % 16) * 16 + v[3] \div 4,
               (v[3] % 4) * 64 + v[4] >> \o B64DecodeSextets(SubSeq(v, 5, n))

\* Buffer.from(str, 'base64').toString(): decoding stops at the first '=',
\* characters outside the alphabet are skipped.
B64Decode(str) ==
    LET pads  == {i \in 1..Len(str) : str[i] = Code("=")}
        body  == IF pads = {} THEN str ELSE SubSeq(str, 1, SeqMin(pads) - 1)
        valid == SelectSeq(body, LAMBDA c : \E i \in 1..64 : B64Chars[i] = c)
    IN  B64DecodeSextets([i \in 1..Len(valid) |-> B64Value(valid[i])])

(***************************************************************************)
(* Objects.  A JavaScript object with string keys keeps its own keys in   *)
(* insertion order: `keys` is that order, `at` the value of each key.      *)
(*                                                                         *)
(* JSON, restricted to what the pipeline exchanges: an object whose        *)
(* members are string literals without escapes, or a bare number.  Any     *)
(* other text makes JSON.parse throw.                                      *)
(***************************************************************************)
EmptyObject ==
    [keys |-> <<>>, at |-> <<>>]

\* obj[key] = value: a new key goes last, a known key keeps its place.
Assign(obj, key, value) ==
    [keys |-> IF key \in DOMAIN obj.at THEN obj.keys ELSE Append(obj.keys, key),
     at   |-> (key :> value) @@ obj.at]

\* obj[key]: undefined when the member is absent.
Member(obj, key) ==
    IF key \in DOMAIN obj.at THEN obj.at[key] ELSE JsUndefined

\* Object.keys(obj)
ObjectKeys(obj) ==
    obj.keys

\* delete obj[key]
Delete(obj, key) ==
    [keys |-> SelectSeq(obj.keys, LAMBDA k : k # key),
     at   |-> [k \in DOMAIN obj.at \ {key} |-> obj.at[k]]]

\* JSON.stringify({rfid: ..., userId: ...}) as the HTTP gateway publishes it.
JsonStringify(rfid, userId) ==
    S(<<"{", "\"", "r", "f", "i", "d", "\"", ":", "\"">>) \o rfid
    \o S(<<"\"", ",", "\"", "u", "s", "e", "r", "I", "d", "\"", ":", "\"">>) \o userId
    \o S(<<"\"", "}">>)

DoubleQuote ==
    Code("\"")

StringEnd(s, i) ==
    LET js == {j \in (i + 1)..Len(s) : s[j] = DoubleQuote}
    IN  IF js = {} THEN 0 ELSE SeqMin(js)

RECURSIVE JsonMembers(_, _, _)
JsonMembers(s, i, obj) ==
    LET fail == [ok |-> FALSE, obj |-> EmptyObject]
        ke   == StringEnd(s, i)
        ve   == StringEnd(s, ke + 2)
        key  == SubSeq(s, i + 1, ke - 1)
        val  == SubSeq(s, ke + 3, ve - 1)
        obj2 == Assign(obj, key, JsStr(val))
    IN  IF i > Len(s) \/ s[i] # DoubleQuote THEN fail
        ELSE IF ke = 0 \/ ke + 2 > Len(s) THEN fail
        ELSE IF s[ke + 1] # Code(":") \/ s[ke + 2] # DoubleQuote THEN fail
        ELSE IF ve = 0 \/ ve + 1 > Len(s) THEN fail
        ELSE IF s[ve + 1] = Code("}") THEN
            IF ve + 1 = Len(s) THEN [ok |-> TRUE, obj |-> obj2] ELSE fail
        ELSE IF s[ve + 1] = Code(",") THEN JsonMembers(s, ve + 2, obj2)
        ELSE fail

JsonParse(s) ==
    IF Len(s) >= 2 /\ s[1] = Code("{") THEN
        IF Len(s) = 2 /\ s[2] = Code("}") THEN [ok |-> TRUE, obj |-> EmptyObject]
        ELSE JsonMembers(s, 2, EmptyObject)
    ELSE IF /\ Len(s) >= 1
            /\ \A i \in 1..Len(s) : s[i] \in 48..57
            /\ (Len(s) > 1 => s[1] # 48)
         THEN [ok |-> TRUE, obj |-> EmptyObject]
    ELSE [ok |-> FALSE, obj |-> EmptyObject]

\* String(n) for a non-negative integer.
RECURSIVE Dec(_)
Dec(n) ==
    IF n < 10 THEN << 48 + n >> ELSE Dec(n \div 10) \o << 48 + (n % 10) >>

\* ToString as applied by string concatenation and URLSearchParams.
JsToString(v) ==
    CASE v.t = "string"    -> v.s
      [] v.t = "number"    -> Dec(v.n)
      [] v.t = "undefined" -> S(<<"u", "n", "d", "e", "f", "i", "n", "e", "d">>)
      [] v.t = "null"      -> S(<<"n", "u", "l", "l">>)

(***************************************************************************)
(* Configuration and the entry-point variants.                             *)
(***************************************************************************)
LASTFM_API_KEY ==
    S(<<"k", "e", "y">>)

LASTFM_API_SECRET ==
    S(<<"t", "e", "s", "t", "_", "a", "p", "i", "_", "s", "e", "c", "r", "e", "t">>)

LASTFM_SESSION_KEY ==
    S(<<"s", "k", "1">>)

\* exports.scrobbleAlbum of gcp_functions/scrobble_album/index.js
ScrobbleAlbum ==
    "scrobbleAlbum"

\* exports.scrobbleAlbum of the per-user variant (JSON payload with userId)
ScrobbleAlbumForUser ==
    "scrobbleAlbumForUser"

\* the documented CloudEvent handler helloPubSub
HelloPubSubDocumented ==
    "helloPubSubDocumented"

\* the CloudEvent handler helloPubSub with extended logging
HelloPubSub ==
    "helloPubSub"

\* the CloudEvent handler helloPubSub that follows publishRfid in
\* gcp_functions/web_nfc_gateway/index.js
HelloPubSubCorrected ==
    "helloPubSubCorrected"

Variants ==
    {ScrobbleAlbum, ScrobbleAlbumForUser, HelloPubSubDocumented, HelloPubSub,
     HelloPubSubCorrected}

CloudEventVariants ==
    {HelloPubSubDocumented, HelloPubSub, HelloPubSubCorrected}

\* the variants whose findAlbumByRfid wraps the store's FAILED_PRECONDITION and
\* whose scrobbleTracks reads response.data.scrobbles.scrobble
ExtendedLoggingVariants ==
    {HelloPubSubDocumented, HelloPubSub}

(***************************************************************************)
(* Pipeline Orchestrator, step 1: decode the payload.                      *)
(***************************************************************************)
KeyRfid ==
    S(<<"r", "f", "i", "d">>)

KeyUserId ==
    S(<<"u", "s", "e", "r", "I", "d">>)

\* !x || typeof x !== 'string' || x.trim() === ''
InvalidField(x) ==
    \/ ~Truthy(x)
    \/ x.t # "string"
    \/ Trim(x.s) = <<>>

\* Variant of the helloPubSub decode step that omits .trim().
DecodeHelloNoTrim(data) ==
    LET rfidUid == IF Truthy(data) THEN JsStr(B64Decode(data.s)) ELSE JsNull
    IN  IF ~Truthy(rfidUid)
        THEN [abort |-> TRUE, rfidUid |-> <<>>, scoped |-> FALSE, userId |-> <<>>]
        ELSE [abort |-> FALSE, rfidUid |-> rfidUid.s, scoped |-> FALSE, userId |-> <<>>]

DecodeHello(data) ==
    LET rfidUid == IF Truthy(data) THEN JsStr(Trim(B64Decode(data.s))) ELSE JsNull
    IN  IF ~Truthy(rfidUid)
        THEN [abort |-> TRUE, rfidUid |-> <<>>, scoped |-> FALSE, userId |-> <<>>]
        ELSE [abort |-> FALSE, rfidUid |-> rfidUid.s, scoped |-> FALSE, userId |-> <<>>]

DecodeScrobbleAlbum(data) ==
    IF ~Truthy(data)
    THEN [abort |-> TRUE, rfidUid |-> <<>>, scoped |-> FALSE, userId |-> <<>>]
    ELSE [abort |-> FALSE, rfidUid |-> data.s, scoped |-> FALSE, userId |-> <<>>]

DecodeForUser(data) ==
    LET none == [abort |-> TRUE, rfidUid |-> <<>>, scoped |-> TRUE, userId |-> <<>>]
        messageDataString == IF Truthy(data) THEN JsStr(B64Decode(data.s)) ELSE JsNull
        parsed == JsonParse(messageDataString.s)
        rfidUid == Member(parsed.obj, KeyRfid)
        userId  == Member(parsed.obj, KeyUserId)
    IN  IF ~Truthy(messageDataString) THEN none
        ELSE IF ~parsed.ok THEN none
        ELSE IF InvalidField(rfidUid) THEN none
        ELSE IF InvalidField(userId) THEN none
        ELSE [abort |-> FALSE, rfidUid |-> Trim(rfidUid.s),
              scoped |-> TRUE, userId |-> Trim(userId.s)]

Decode(v, data) ==
    CASE v \in CloudEventVariants -> DecodeHello(data)
      [] v = ScrobbleAlbum        -> DecodeScrobbleAlbum(data)
      [] v = ScrobbleAlbumForUser -> DecodeForUser(data)

(***************************************************************************)
(* Album Resolver.                                                         *)
(***************************************************************************)
\* Variant of the query that looks through every owner's collection even
\* when an owner is given.
MatchingAllOwners(docs, q) ==
    {d \in docs : d.rfid = q.rfid}

\* collection(...).where('rfid', '==', rfidUid): the documents a query sees.
Matching(docs, q) ==
    {d \in docs : d.rfid = q.rfid /\ (q.scoped => d.owner = q.userId)}

\* helpfulMessage: the template literal around ${error.details}
IndexErrorMessage(v, error) ==
    << IF v = HelloPubSub
       THEN "A Firestore index is required for this query to work. Please go to your Firestore console, navigate to the 'Indexes' tab, and create a composite index for the 'albums' collection group on the 'rfid' field. The original error was: \""
       ELSE "A Firestore index is required for this query. Please create a composite index for the 'albums' collection group on the 'rfid' field. Original error: \"",
       IF error.hasDetails THEN error.details ELSE "undefined",
       "\"" >>

\* Variant of the Resolver that treats an empty snapshot as an error.
FindAlbumThrowsOnMiss(v, reply) ==
    IF reply.k = "snapshot" THEN
        IF reply.docs = <<>>
        THEN [threw |-> TRUE, value |-> JsError("Error", <<"Album not found">>)]
        ELSE [threw |-> FALSE,
              value |-> [t |-> "object", id |-> reply.docs[1].id,
                         rfid |-> reply.docs[1].rfid,
                         artist |-> reply.docs[1].artist,
                         album |-> reply.docs[1].album]]
    ELSE [threw |-> TRUE, value |-> reply.error]

\* Variant of the Resolver that stores the document's artist and album crosswise.
FindAlbumSwapped(v, reply) ==
    IF reply.k = "snapshot" THEN
        IF reply.docs = <<>>
        THEN [threw |-> FALSE, value |-> JsNull]
        ELSE [threw |-> FALSE,
              value |-> [t |-> "object", id |-> reply.docs[1].id,
                         rfid |-> reply.docs[1].rfid,
                         artist |-> reply.docs[1].album,
                         album |-> reply.docs[1].artist]]
    ELSE [threw |-> TRUE, value |-> reply.error]

\* Variant of the Resolver whose catch block wraps every store error, not
\* only FAILED_PRECONDITION.
FindAlbumWrapAll(v, reply) ==
    IF reply.k = "snapshot" THEN
        IF reply.docs = <<>>
        THEN [threw |-> FALSE, value |-> JsNull]
        ELSE [threw |-> FALSE,
              value |-> [t |-> "object", id |-> reply.docs[1].id,
                         rfid |-> reply.docs[1].rfid,
                         artist |-> reply.docs[1].artist,
                         album |-> reply.docs[1].album]]
    ELSE [threw |-> TRUE,
          value |-> [JsError("Error", IndexErrorMessage(v, reply.error))
                         EXCEPT !.cause = reply.error.message]]

\* Variant of the Resolver that returns doc.data() alone, without the document's id.
FindAlbumDataOnly(v, reply) ==
    IF reply.k = "snapshot" THEN
        IF reply.docs = <<>>
        THEN [threw |-> FALSE, value |-> JsNull]
        ELSE [threw |-> FALSE,
              value |-> [t |-> "object", id |-> "undefined",
                         rfid |-> reply.docs[1].rfid,
                         artist |-> reply.docs[1].artist,
                         album |-> reply.docs[1].album]]
    ELSE [threw |-> TRUE, value |-> reply.error]

\* findAlbumByRfid / findAlbumByRfidForUser after the query settled.
\* Variant of the Resolver that treats the missing-index failure as a miss.
FindAlbumIndexAsMiss(v, reply) ==
    IF reply.k = "snapshot" THEN
        IF reply.docs = <<>>
        THEN [threw |-> FALSE, value |-> JsNull]
        ELSE [threw |-> FALSE,
              value |-> [t |-> "object", id |-> reply.docs[1].id,
                         rfid |-> reply.docs[1].rfid,
                         artist |-> reply.docs[1].artist,
                         album |-> reply.docs[1].album]]
    ELSE IF reply.error.code = 9 THEN [threw |-> FALSE, value |-> JsNull]
    ELSE [threw |-> TRUE, value |-> reply.error]

FindAlbum(v, reply) ==
    IF reply.k = "snapshot" THEN
        IF reply.docs = <<>>
        THEN [threw |-> FALSE, value |-> JsNull]
        ELSE [threw |-> FALSE,
              value |-> [t |-> "object", id |-> reply.docs[1].id,
                         rfid |-> reply.docs[1].rfid,
                         artist |-> reply.docs[1].artist,
                         album |-> reply.docs[1].album]]
    ELSE IF v \in ExtendedLoggingVariants /\ reply.error.code = 9 THEN
        [threw |-> TRUE,
         value |-> [JsError("Error", IndexErrorMessage(v, reply.error))
                        EXCEPT !.cause = reply.error.message]]
    ELSE [threw |-> TRUE, value |-> reply.error]

(***************************************************************************)
(* Tracklist Fetcher.                                                      *)
(***************************************************************************)
JsArray(items) ==
    [t |-> "array", items |-> items]

Track(name) ==
    [t |-> "object", name |-> name]

\* await axios.get(...): the response, or the rejection thrown into the try block.
AxiosError(reply) ==
    JsError("AxiosError",
            IF reply.status = 0 THEN <<"Network Error">>
            ELSE <<"Request failed with status code ", "${status}">>)

\* try block of part_006: explicit checks, then Array.isArray normalisation
TryGetAlbumTracksHello(reply) ==
    IF reply.k = "reject" THEN [threw |-> TRUE, value |-> AxiosError(reply)]
    ELSE IF reply.error # 0 \/ reply.album \in {"absent", "noTracks", "noTrack"}
         THEN [threw |-> FALSE, value |-> JsArray(<<>>)]
    ELSE IF reply.track.t # "array"
         THEN [threw |-> FALSE, value |-> JsArray(<<reply.track>>)]
    ELSE [threw |-> FALSE, value |-> reply.track]

\* try block of part_002: response.data?.album?.tracks?.track
TryGetAlbumTracksDocumented(reply) ==
    IF reply.k = "reject" THEN [threw |-> TRUE, value |-> AxiosError(reply)]
    ELSE IF reply.album \in {"absent", "noTracks", "noTrack"}
         THEN [threw |-> FALSE, value |-> JsArray(<<>>)]
    ELSE IF reply.track.t # "array"
         THEN [threw |-> FALSE, value |-> JsArray(<<reply.track>>)]
    ELSE [threw |-> FALSE, value |-> reply.track]

\* try block of scrobble_album/index.js and of the per-user variant: the
\* track entry is returned as the response holds it
TryGetAlbumTracksLegacy(reply) ==
    IF reply.k = "reject" THEN [threw |-> TRUE, value |-> AxiosError(reply)]
    ELSE IF reply.error # 0 \/ reply.album \in {"absent", "noTracks"}
         THEN [threw |-> FALSE, value |-> JsArray(<<>>)]
    ELSE IF reply.album = "noTrack" THEN [threw |-> FALSE, value |-> JsUndefined]
    ELSE [threw |-> FALSE, value |-> reply.track]

TryGetAlbumTracks(v, reply) ==
    CASE v \in {HelloPubSub, HelloPubSubCorrected}
                                   -> TryGetAlbumTracksHello(reply)
      [] v = HelloPubSubDocumented -> TryGetAlbumTracksDocumented(reply)
      [] OTHER                     -> TryGetAlbumTracksLegacy(reply)

\* Variant of getAlbumTracks whose catch block rethrows instead of returning [].
GetAlbumTracksRethrow(v, reply) ==
    TryGetAlbumTracks(v, reply)

\* Variant of getAlbumTracks whose catch block returns null instead of [].
GetAlbumTracksCatchNull(v, reply) ==
    LET r == TryGetAlbumTracks(v, reply)
    IN  IF r.threw THEN [threw |-> FALSE, value |-> JsNull] ELSE r

\* getAlbumTracks: the catch block logs and returns [].
GetAlbumTracks(v, reply) ==
    LET r == TryGetAlbumTracks(v, reply)
    IN  IF r.threw THEN [threw |-> FALSE, value |-> JsArray(<<>>)] ELSE r

\* Variant of the handler's tracklist test without the length check: !tracks
NoTracksFalsyOnly(tracks) ==
    ~Truthy(tracks)

\* !tracks || tracks.length === 0
NoTracks(tracks) ==
    \/ ~Truthy(tracks)
    \/ (tracks.t = "array" /\ Len(tracks.items) = 0)

(***************************************************************************)
(* md5 (RFC 1321) on a string of bytes.  A 32-bit word is the pair of its  *)
(* 16-bit halves <<high, low>>.                                            *)
(***************************************************************************)
RECURSIVE BitAnd(_, _)
BitAnd(x, y) ==
    IF x = 0 \/ y = 0 THEN 0
    ELSE 2 * BitAnd(x \div 2, y \div 2) + (IF x % 2 = 1 /\ y % 2 = 1 THEN 1 ELSE 0)

RECURSIVE BitOr(_, _)
BitOr(x, y) ==
    IF x = 0 THEN y
    ELSE IF y = 0 THEN x
    ELSE 2 * BitOr(x \div 2, y \div 2) + (IF x % 2 = 1 \/ y % 2 = 1 THEN 1 ELSE 0)

RECURSIVE BitXor(_, _)
BitXor(x, y) ==
    IF x = 0 THEN y
    ELSE IF y = 0 THEN x
    ELSE 2 * BitXor(x \div 2, y \div 2) + (IF x % 2 # y % 2 THEN 1 ELSE 0)

WordAnd(a, b) ==
    <<BitAnd(a[1], b[1]), BitAnd(a[2], b[2])>>

WordOr(a, b) ==
    <<BitOr(a[1], b[1]), BitOr(a[2], b[2])>>

WordXor(a, b) ==
    <<BitXor(a[1], b[1]), BitXor(a[2], b[2])>>

WordNot(a) ==
    <<65535 - a[1], 65535 - a[2]>>

\* Addition modulo 2^32.
WordAdd(a, b) ==
    <<(a[1] + b[1] + ((a[2] + b[2]) \div 65536)) % 65536, (a[2] + b[2]) % 65536>>

\* Rotation to the left by s bits, 0 < s < 32.
RotateLeft(a, s) ==
    LET w == IF s >= 16 THEN <<a[2], a[1]>> ELSE a
        r == s % 16
    IN  IF r = 0 THEN w
        ELSE <<((w[1] * (2^r)) % 65536) + (w[2] \div (2^(16 - r))),
               ((w[2] * (2^r)) % 65536) + (w[1] \div (2^(16 - r)))>>

\* floor(2^32 * abs(sin(i + 1))), i = 0..63
Md5Sines ==
    <<
       <<55146, 42104>>, <<59591, 46934>>, <<9248, 28891>>, <<49597, 52974>>,
       <<62844, 4015>>, <<18311, 50730>>, <<43056, 17939>>, <<64838, 38145>>,
       <<27008, 39128>>, <<35652, 63407>>, <<65535, 23473>>, <<35164, 55230>>,
       <<27536, 4386>>, <<64920, 29075>>, <<42617, 17294>>, <<18868, 2081>>,
       <<63006, 9570>>, <<49216, 45888>>, <<9822, 23121>>, <<59830, 51114>>,
       <<54831, 4189>>, <<580, 5203>>, <<55457, 59009>>, <<59347, 64456>>,
       <<8673, 52710>>, <<49975, 2006>>, <<62677, 3463>>, <<17754, 5357>>,
       <<43491, 59653>>, <<64751, 41976>>, <<26479, 729>>, <<36138, 19594>>,
       <<65530, 14658>>, <<34673, 63105>>, <<28061, 24866>>, <<64997, 14348>>,
       <<42174, 59972>>, <<19422, 53161>>, <<63163, 19296>>, <<48831, 48240>>,
       <<10395, 32454>>, <<60065, 10234>>, <<54511, 12421>>, <<1160, 7429>>,
       <<55764, 53305>>, <<59099, 39397>>, <<8098, 31992>>, <<50348, 22117>>,
       <<62505, 8772>>, <<17194, 65431>>, <<43924, 9127>>, <<64659, 41017>>,
       <<25947, 22979>>, <<36620, 52370>>, <<65519, 62589>>, <<34180, 24017>>,
       <<28584, 32335>>, <<65068, 59104>>, <<41729, 17172>>, <<19976, 4513>>,
       <<63315, 32386>>, <<48442, 62005>>, <<10967, 53947>>, <<60294, 54161>>
    >>

\* The per-round shift amounts.
Md5Shifts ==
    <<
       7, 12, 17, 22, 7, 12, 17, 22, 7, 12, 17, 22, 7, 12, 17, 22,
       5, 9, 14, 20, 5, 9, 14, 20, 5, 9, 14, 20, 5, 9, 14, 20,
       4, 11, 16, 23, 4, 11, 16, 23, 4, 11, 16, 23, 4, 11, 16, 23,
       6, 10, 15, 21, 6, 10, 15, 21, 6, 10, 15, 21, 6, 10, 15, 21
    >>

Md5Start ==
    <<<<26437, 8961>>, <<61389, 43913>>, <<39098, 56574>>, <<4146, 21622>>>>

\* The message followed by the bit 1, zeros up to 56 modulo 64, and the
\* length in bits as 64 bits, low byte first.
Md5Padded(bytes) ==
    LET n     == Len(bytes)
        zeros == [i \in 1..((119 - (n % 64)) % 64) |-> 0]
        bits  == n * 8
    IN  bytes \o <<128>> \o zeros
        \o <<bits % 256, (bits \div 256) % 256, (bits \div 65536) % 256,
             bits \div 16777216, 0, 0, 0, 0>>

\* Word g (0..15) of block k (0..), low byte first.
Md5Word(padded, k, g) ==
    LET at == 64 * k + 4 * g
    IN  <<padded[at + 4] * 256 + padded[at + 3], padded[at + 2] * 256 + padded[at + 1]>>

\* Operation i (0..63) on the state <<a, b, c, d>>.
Md5Step(st, padded, k, i) ==
    LET a == st[1]
        b == st[2]
        c == st[3]
        d == st[4]
        f == IF i < 16 THEN WordOr(WordAnd(b, c), WordAnd(WordNot(b), d))
             ELSE IF i < 32 THEN WordOr(WordAnd(d, b), WordAnd(WordNot(d), c))
             ELSE IF i < 48 THEN WordXor(b, WordXor(c, d))
             ELSE WordXor(c, WordOr(b, WordNot(d)))
        g == IF i < 16 THEN i
             ELSE IF i < 32 THEN (5 * i + 1) % 16
             ELSE IF i < 48 THEN (3 * i + 5) % 16
             ELSE (7 * i) % 16
        sum == WordAdd(WordAdd(f, a), WordAdd(Md5Sines[i + 1], Md5Word(padded, k, g)))
    IN  <<d, WordAdd(b, RotateLeft(sum, Md5Shifts[i + 1])), b, c>>

RECURSIVE Md5Steps(_, _, _, _)
Md5Steps(st, padded, k, i) ==
    IF i = 64 \/ Len(st) # 4 THEN st
    ELSE Md5Steps(Md5Step(st, padded, k, i), padded, k, i + 1)

RECURSIVE Md5Blocks(_, _, _)
Md5Blocks(st, padded, k) ==
    IF 64 * k >= Len(padded) THEN st
    ELSE LET out == Md5Steps(st, padded, k, 0)
         IN  Md5Blocks(<<WordAdd(st[1], out[1]), WordAdd(st[2], out[2]),
                         WordAdd(st[3], out[3]), WordAdd(st[4], out[4])>>,
                       padded, k + 1)

HexDigit(n) ==
    IF n < 10 THEN 48 + n ELSE 87 + n

HexByte(b) ==
    <<HexDigit(b \div 16), HexDigit(b % 16)>>

\* Variant of the output that writes each word high byte first.
HexWordHighFirst(w) ==
    HexByte(w[1] \div 256) \o HexByte(w[1] % 256)
    \o HexByte(w[2] \div 256) \o HexByte(w[2] % 256)

\* The bytes of a word, low byte first, in lower-case hexadecimal.
HexWord(w) ==
    HexByte(w[2] % 256) \o HexByte(w[2] \div 256)
    \o HexByte(w[1] % 256) \o HexByte(w[1] \div 256)

\* md5(message): the digest as 32 hexadecimal characters.
md5(bytes) ==
    LET st == Md5Blocks(Md5Start, Md5Padded(bytes), 0)
    IN  HexWord(st[1]) \o HexWord(st[2]) \o HexWord(st[3]) \o HexWord(st[4])

(***************************************************************************)
(* Signature Generator.                                                    *)
(***************************************************************************)
KeyFormat ==
    S(<<"f", "o", "r", "m", "a", "t">>)

KeyApiSig ==
    S(<<"a", "p", "i", "_", "s", "i", "g">>)

\* Variant of the comparison that puts the shorter key first, as a "natural"
\* ordering of indexed keys would (artist[1] before artist[10]).
StrLessShortFirst(a, b) ==
    LET n    == IF Len(a) < Len(b) THEN Len(a) ELSE Len(b)
        diff == {i \in 1..n : a[i] # b[i]}
    IN  IF Len(a) # Len(b) THEN Len(a) < Len(b)
        ELSE diff # {} /\ a[SeqMin(diff)] < b[SeqMin(diff)]

\* The comparison Array.prototype.sort() applies to strings: by code unit.
StrLess(a, b) ==
    LET n    == IF Len(a) < Len(b) THEN Len(a) ELSE Len(b)
        diff == {i \in 1..n : a[i] # b[i]}
    IN  IF diff = {} THEN Len(a) < Len(b)
        ELSE a[SeqMin(diff)] < b[SeqMin(diff)]

RECURSIVE SortKeys(_)
SortKeys(keys) ==
    IF keys = {} THEN <<>>
    ELSE LET first == CHOOSE k \in keys : \A o \in keys \ {k} : StrLess(k, o)
         IN  <<first>> \o SortKeys(keys \ {first})

\* Variant of the key sort that leaves the keys in insertion order.
SortNot(keys) ==
    keys

\* keys.sort() on the list Object.keys() returned (its entries are distinct).
Sort(keys) ==
    SortKeys({keys[i] : i \in DOMAIN keys})

\* sortedKeys.forEach(key => { signatureString += key + params[key]; })
RECURSIVE ConcatPairs(_, _)
ConcatPairs(sortedKeys, params) ==
    IF sortedKeys = <<>> THEN <<>>
    ELSE Head(sortedKeys) \o JsToString(Member(params, Head(sortedKeys)))
         \o ConcatPairs(Tail(sortedKeys), params)

\* const paramsForSig = { ...params }; delete paramsForSig.format; in the
\* helloPubSub variants.  The scrobbleAlbum variants read `params` itself.
ParamsForSig(v, params) ==
    IF v \in CloudEventVariants THEN Delete(params, KeyFormat) ELSE params

\* The string handed to md5().
SignatureString(v, params) ==
    LET paramsForSig == ParamsForSig(v, params)
    IN  ConcatPairs(Sort(ObjectKeys(paramsForSig)), paramsForSig)
        \o LASTFM_API_SECRET

\* md5(signatureString): the digest is kept as a value determined by its input.
generateApiSignature(v, params) ==
    [t |-> "md5", of |-> SignatureString(v, params)]

\* Variant of generateApiSignature that deletes `format` from the mapping it
\* was handed instead of from a copy.
ParamsAfterDelete(v, params) ==
    Delete(params, KeyFormat)

\* The caller's mapping once generateApiSignature has returned: the function
\* only reads `params` (the helloPubSub variants delete from a copy).
ParamsAfterSignature(v, params) ==
    params

(***************************************************************************)
(* Scrobble Submitter.                                                     *)
(***************************************************************************)
FieldNames ==
    [artist    |-> S(<<"a", "r", "t", "i", "s", "t">>),
     album     |-> S(<<"a", "l", "b", "u", "m">>),
     track     |-> S(<<"t", "r", "a", "c", "k">>),
     timestamp |-> S(<<"t", "i", "m", "e", "s", "t", "a", "m", "p">>)]

LeftBracket ==
    Code("[")

RightBracket ==
    Code("]")

\* `${f}[${i}]`
IndexedKey(f, i) ==
    FieldNames[f] \o <<LeftBracket>> \o Dec(i) \o <<RightBracket>>

KeyMethod ==
    S(<<"m", "e", "t", "h", "o", "d">>)

KeySk ==
    S(<<"s", "k">>)

KeyApiKey ==
    S(<<"a", "p", "i", "_", "k", "e", "y">>)

TrackScrobble ==
    S(<<"t", "r", "a", "c", "k", ".", "s", "c", "r", "o", "b", "b", "l", "e">>)

FormatJson ==
    S(<<"j", "s", "o", "n">>)

\* Variant of the timestamp loop that walks forward from now.
TimestampsForward(now, n) ==
    [j \in 1..n |-> now + (j - 1) * 180]

\* timestamps.push(now - (tracks.length - i - 1) * 180) for i = 0 .. length - 1
Timestamps(now, n) ==
    [j \in 1..n |-> now - (n - (j - 1) - 1) * 180]

\* { method: 'track.scrobble', sk: ..., api_key: ... }
BaseParams ==
    Assign(Assign(Assign(EmptyObject, KeyMethod, JsStr(TrackScrobble)),
                  KeySk, JsStr(LASTFM_SESSION_KEY)),
           KeyApiKey, JsStr(LASTFM_API_KEY))

\* Variant of the forEach that stops one track short.
RECURSIVE IndexedParamsDropLast(_, _, _, _, _, _)
IndexedParamsDropLast(params, items, i, artist, album, timestamps) ==
    IF i >= Len(items) - 1 THEN params
    ELSE IndexedParamsDropLast(
            Assign(Assign(Assign(Assign(params,
                IndexedKey("artist", i), JsStr(artist)),
                IndexedKey("album", i), JsStr(album)),
                IndexedKey("track", i), JsStr(items[i + 1].name)),
                IndexedKey("timestamp", i), JsNum(timestamps[i + 1])),
            items, i + 1, artist, album, timestamps)

\* tracks.forEach((track, i) => { params[`artist[${i}]`] = artist; ... }),
\* from index i on.
RECURSIVE IndexedParams(_, _, _, _, _, _)
IndexedParams(params, items, i, artist, album, timestamps) ==
    IF i >= Len(items) THEN params
    ELSE IndexedParams(
            Assign(Assign(Assign(Assign(params,
                IndexedKey("artist", i), JsStr(artist)),
                IndexedKey("album", i), JsStr(album)),
                IndexedKey("track", i), JsStr(items[i + 1].name)),
                IndexedKey("timestamp", i), JsNum(timestamps[i + 1])),
            items, i + 1, artist, album, timestamps)

\* Variant of scrobbleTracks that signs the batch-level parameters before the
\* indexed ones are set.
PrepareScrobbleSignFirst(v, tracks, artist, album, now) ==
    IF tracks.t # "array" THEN
        [threw |-> TRUE, timestamps |-> <<>>, params |-> EmptyObject,
         error |-> JsError("TypeError", <<"tracks.forEach is not a function">>)]
    ELSE
        LET timestamps == Timestamps(now, Len(tracks.items))
            api_sig    == generateApiSignature(v, BaseParams)
            indexed    == IndexedParams(Assign(BaseParams, KeyApiSig, api_sig),
                                        tracks.items, 0, artist, album, timestamps)
        IN  [threw |-> FALSE, timestamps |-> timestamps,
             params |-> Assign(indexed, KeyFormat, JsStr(FormatJson)),
             error |-> JsNull]

\* scrobbleTracks up to the POST: the request parameters, or the TypeError
\* of tracks.forEach / tracks.map when `tracks` is not an array.
PrepareScrobble(v, tracks, artist, album, now) ==
    IF tracks.t # "array" THEN
        [threw |-> TRUE, timestamps |-> <<>>, params |-> EmptyObject,
         error |-> JsError("TypeError", <<"tracks.forEach is not a function">>)]
    ELSE
        LET timestamps == Timestamps(now, Len(tracks.items))
            indexed    == IndexedParams(BaseParams, tracks.items, 0, artist, album,
                                        timestamps)
            api_sig    == generateApiSignature(v, indexed)
        IN  [threw |-> FALSE, timestamps |-> timestamps,
             params |-> Assign(Assign(ParamsAfterSignature(v, indexed),
                                      KeyApiSig, api_sig),
                               KeyFormat, JsStr(FormatJson)),
             error |-> JsNull]

\* new URLSearchParams(params): every value becomes its string.
FormBody(params) ==
    [k \in DOMAIN params.at |->
        IF params.at[k].t = "md5" THEN params.at[k]
        ELSE JsStr(JsToString(params.at[k]))]

ScrobbleEntryComplete(v, e) ==
    /\ e.track
    /\ e.artist
    /\ (v = HelloPubSub => e.album)

\* Variant of scrobbleTracks that iterates response.data.scrobbles.scrobble
\* as it is, without wrapping a single confirmation into a list.
ScrobbleOutcomeUnwrapped(v, reply) ==
    LET raise(name, msg) ==
            [threw |-> TRUE, logged |-> <<>>, error |-> JsError(name, msg)]
    IN  IF reply.k = "reject"
        THEN [threw |-> TRUE, logged |-> <<>>, error |-> AxiosError(reply)]
        ELSE IF reply.error # 0 THEN
            IF v \in CloudEventVariants
            THEN [threw |-> TRUE, logged |-> <<>>,
                  error |-> [JsError("Error", <<"Last.fm scrobble API error (",
                                                "${response.data.error}", "): ",
                                                reply.message>>)
                                EXCEPT !.apiCode = reply.error]]
            ELSE raise("Error", <<reply.message>>)
        ELSE IF v \notin ExtendedLoggingVariants THEN
            [threw |-> FALSE, logged |-> <<>>, error |-> JsNull]
        ELSE IF reply.scrobbles = "missing" THEN
            raise("TypeError", <<"Cannot read properties of undefined (reading 'scrobble')">>)
        ELSE IF reply.scrobbles # "list" THEN
            raise("TypeError", <<"scrobbles.forEach is not a function">>)
        ELSE IF \E i \in 1..Len(reply.scrobble) : ~ScrobbleEntryComplete(v, reply.scrobble[i])
             THEN raise("TypeError", <<"Cannot read properties of undefined (reading '#text')">>)
        ELSE [threw |-> FALSE, logged |-> reply.scrobble, error |-> JsNull]

\* scrobbleTracks after the POST settled.
ScrobbleOutcome(v, reply) ==
    LET raise(name, msg) ==
            [threw |-> TRUE, logged |-> <<>>, error |-> JsError(name, msg)]
        scrobblesArray ==
            IF reply.scrobbles = "list" THEN reply.scrobble ELSE <<reply.scrobble>>
    IN  IF reply.k = "reject"
        THEN [threw |-> TRUE, logged |-> <<>>, error |-> AxiosError(reply)]
        ELSE IF reply.error # 0 THEN
            IF v \in CloudEventVariants
            THEN [threw |-> TRUE, logged |-> <<>>,
                  error |-> [JsError("Error", <<"Last.fm scrobble API error (",
                                                "${response.data.error}", "): ",
                                                reply.message>>)
                                EXCEPT !.apiCode = reply.error]]
            ELSE raise("Error", <<reply.message>>)
        ELSE IF v \notin ExtendedLoggingVariants THEN
            [threw |-> FALSE, logged |-> <<>>, error |-> JsNull]
        ELSE IF reply.scrobbles = "missing" THEN
            raise("TypeError", <<"Cannot read properties of undefined (reading 'scrobble')">>)
        ELSE IF \E i \in 1..Len(scrobblesArray) : ~ScrobbleEntryComplete(v, scrobblesArray[i])
             THEN raise("TypeError", <<"Cannot read properties of undefined (reading '#text')">>)
        ELSE [threw |-> FALSE, logged |-> scrobblesArray, error |-> JsNull]

(***************************************************************************)
(* The environment: payloads, the album store, the catalog and submission  *)
(* APIs, the clock.                                                        *)
(***************************************************************************)
MaxTracks == 2

MaxRedeliveries == 1

RfidA1 ==
    S(<<"A", "1">>)

UserU1 ==
    S(<<"u", "1">>)

UserU2 ==
    S(<<"u", "2">>)

\* message.data: absent, empty, an identifier handed over undecoded (as the
\* firmware publishes it), or the base64 text of an identifier or of the
\* gateway's JSON object.
Payloads ==
    {JsUndefined, JsStr(<<>>), JsStr(RfidA1), JsStr(S(<<" ", "A", "1">>))}
    \cup {JsStr(B64Encode(text)) : text \in
            { S(<<" ", "A", "1", " ">>),
              S(<<" ", " ">>),
              S(<<"Z", "9">>),
              S(<<"a", "1">>),
              JsonStringify(RfidA1, UserU1),
              JsonStringify(S(<<" ", "A", "1">>), UserU2),
              JsonStringify(S(<<" ">>), UserU1) }}

\* The AlbumMapping documents; `owner` is the users/{userId} segment of the path.
Albums ==
    { [id |-> "doc1", owner |-> UserU1, rfid |-> RfidA1,
       artist |-> S(<<"C", "u", "r", "e">>), album |-> S(<<"D", "i", "s">>)],
      [id |-> "doc2", owner |-> UserU2, rfid |-> RfidA1,
       artist |-> S(<<"A", "b", "b", "a">>), album |-> S(<<"G", "o", "l", "d">>)] }

StoreError(code, hasDetails, details, message) ==
    [JsError("Error", message) EXCEPT !.code = code, !.hasDetails = hasDetails,
                                      !.details = details]

\* FAILED_PRECONDITION (9): the collection-group query needs an index.
IndexErrors ==
    { StoreError(9, TRUE, "The query requires an index. You can create it here: <link>",
                 <<"9 FAILED_PRECONDITION: ",
                   "The query requires an index. You can create it here: <link>">>),
      StoreError(9, FALSE, "", <<"FAILED_PRECONDITION: index missing">>) }

TransientStoreErrors ==
    { StoreError(14, TRUE, "The service is currently unavailable.",
                 <<"14 UNAVAILABLE: ", "The service is currently unavailable.">>),
      StoreError(0, FALSE, "", <<"Firestore query failed">>) }

\* What .where('rfid', '==', rfidUid).limit(1).get() can settle with.
StoreReplies(docs, q, hasIndex) ==
    LET hits == Matching(docs, q)
    IN  {[k |-> "error", error |-> e] : e \in TransientStoreErrors}
        \cup (IF ~q.scoped /\ ~hasIndex
              THEN {[k |-> "error", error |-> e] : e \in IndexErrors}
              ELSE IF hits = {} THEN {[k |-> "snapshot", docs |-> <<>>]}
              ELSE {[k |-> "snapshot", docs |-> <<d>>] : d \in hits})

\* The catalog's native track order of an album: T1, T2, ...
TrackName(i) ==
    S(<<"T">>) \o Dec(i)

TrackLists ==
    {[i \in 1..n |-> Track(TrackName(i))] : n \in 0..MaxTracks}

CatalogData(error, album, track) ==
    [k |-> "data", error |-> error, message |-> IF error = 0 THEN "" ELSE "Album not found",
     album |-> album, track |-> track]

\* What axios.get(album.getinfo) can settle with.
CatalogReplies ==
    {[k |-> "reject", status |-> s] : s \in {0, 500}}
    \cup {CatalogData(6, "absent", JsUndefined)}
    \cup {CatalogData(0, a, JsUndefined) : a \in {"absent", "noTracks", "noTrack"}}
    \cup {CatalogData(0, "track", Track(TrackName(1)))}
    \cup {CatalogData(0, "track", JsArray(items)) : items \in TrackLists}

ScrobbleEntry(track, artist, album) ==
    [track |-> track, artist |-> artist, album |-> album]

SubmitData(error, scrobbles, scrobble) ==
    [k |-> "data", error |-> error,
     message |-> IF error = 0 THEN "" ELSE "Invalid session key",
     scrobbles |-> scrobbles, scrobble |-> scrobble]

\* What axios.post(track.scrobble) can settle with.
SubmitReplies ==
    { [k |-> "reject", status |-> 503],
      SubmitData(9, "missing", <<>>),
      SubmitData(0, "missing", <<>>),
      SubmitData(0, "single", ScrobbleEntry(TRUE, TRUE, TRUE)),
      SubmitData(0, "single", ScrobbleEntry(TRUE, TRUE, FALSE)),
      SubmitData(0, "list", <<ScrobbleEntry(TRUE, TRUE, TRUE), ScrobbleEntry(TRUE, TRUE, TRUE)>>) }

\* Math.floor(Date.now() / 1000) at the first delivery, and the delay after
\* which the transport redelivers.
FirstDeliveryTime ==
    1700000000

RedeliveryDelay ==
    10

(***************************************************************************)
(* State.                                                                  *)
(***************************************************************************)
VARIABLES
    variant,       \* the entry point the event is delivered to
    data,          \* message.data of the event
    albums,        \* the album store's documents
    indexReady,    \* whether the collection-group index on rfid exists
    clock,         \* Date.now() in whole seconds
    redeliveries,  \* how many times the transport has redelivered the event
    history,       \* the batches the submission API has accepted so far
    pc,            \* where the handler of the current delivery stands
    rfidUid,       \* handler locals ...
    userId,
    albumDetails,
    tracks,
    timestamps,
    params,
    logged,        \* the confirmations scrobbleTracks logged
    outcome,       \* "none" while running, then "returned" or "threw"
    error,         \* the error the invocation ended with
    trace,         \* the external calls of this invocation and their replies
    signing,       \* a direct call of generateApiSignature: mapping and digest
    invocations,   \* concurrent deliveries: each one's position, outcome and calls
    scopes,        \* the bindings declared inside the handler, one set per call
    gateway,       \* the HTTP gateway: the request in hand, its responses, its publishes
    device,        \* the deep-sleep firmware: where it stands in its wake cycle
    manager        \* the album manager page: session, listener, deletion modal

event == <<variant, data>>

world == <<albums, indexReady, clock, redeliveries, history>>

locals == <<rfidUid, userId, albumDetails, tracks, timestamps, params, logged>>

concurrent == <<invocations, scopes>>

outside == <<gateway, device, manager>>

vars == <<event, world, locals, pc, outcome, error, trace, signing, concurrent, outside>>

\* No call of generateApiSignature has returned for `params` yet.
NotSigned(mapping) ==
    [params |-> mapping, given |-> mapping, api_sig |-> JsUndefined]

\* Two deliveries handled at the same time by one instance of the function.
Invocations ==
    {1, 2}

NotInvoked ==
    [pc |-> "start", data |-> JsUndefined, outcome |-> "none", error |-> JsNull,
     trace |-> <<>>]

\* const rfidUid, const albumDetails, const tracks: not yet bound.
FreshScope ==
    [rfidUid |-> <<>>, userId |-> <<>>, albumDetails |-> JsNull, tracks |-> JsUndefined]

\* Variant in which the handler's bindings are declared at module level, so
\* that all invocations read and write the same ones.
ScopeAtModuleLevel(i) ==
    CHOOSE shared \in Invocations : \A j \in Invocations : shared <= j

\* The bindings of the handler are declared inside the async function: every
\* invocation has its own.
ScopeOf(i) ==
    i

\* The gateway's module has not been loaded yet.
GatewayIdle ==
    [pc |-> "unloaded", origin |-> "none", method |-> "", apiKey |-> JsUndefined,
     rfid |-> JsUndefined, expectedApiKey |-> JsUndefined, webGatewayUserId |-> JsUndefined,
     responses |-> <<>>, call |-> JsUndefined, settled |-> "none", published |-> <<>>]

\* the firmware after a reset, entering setup(): nothing armed, nothing published
DevicePoweredOn ==
    [pc |-> "wifi", retries |-> 0, i |-> 0, connected |-> FALSE, armed |-> FALSE,
     published |-> <<>>, cause |-> "power", reason |-> "none"]

\* the album manager page before main() has run: let unsubscribeFromAlbums = null,
\* let docToDeleteId = null, every view and the modal hidden, the list empty
ManagerClosed ==
    [view |-> "closed", currentUser |-> <<>>, userId |-> <<>>, listeners |-> <<>>,
     unsubscribeFromAlbums |-> FALSE, albumsCollectionRef |-> <<>>, albumList |-> {},
     docToDeleteId |-> "", modal |-> FALSE, clicked |-> "", deleting |-> {}]

FreshLocals ==
    /\ rfidUid = <<>>
    /\ userId = <<>>
    /\ albumDetails = JsNull
    /\ tracks = JsUndefined
    /\ timestamps = <<>>
    /\ params = EmptyObject
    /\ logged = <<>>

Init ==
    /\ variant \in Variants
    /\ data \in Payloads
    /\ albums = Albums
    /\ indexReady \in BOOLEAN
    /\ clock = FirstDeliveryTime
    /\ redeliveries = 0
    /\ history = <<>>
    /\ pc = "start"
    /\ FreshLocals
    /\ outcome = "none"
    /\ error = JsNull
    /\ trace = <<>>
    /\ signing = NotSigned(EmptyObject)
    /\ invocations = [i \in Invocations |-> NotInvoked]
    /\ scopes = [i \in Invocations |-> FreshScope]
    /\ gateway = GatewayIdle
    /\ device = DevicePoweredOn
    /\ manager = ManagerClosed

\* `return` out of the handler.
Return ==
    /\ pc' = "done"
    /\ outcome' = "returned"
    /\ error' = JsNull

\* The catch block around the pipeline: helloPubSub logs and rethrows, the
\* scrobbleAlbum variants only log.
Catch(e) ==
    /\ pc' = "done"
    /\ IF variant \in CloudEventVariants
       THEN outcome' = "threw" /\ error' = e
       ELSE outcome' = "returned" /\ error' = JsNull

Query ==
    [rfid |-> rfidUid, scoped |-> variant = ScrobbleAlbumForUser, userId |-> userId]

\* Variant of the entry that drops an event for which the service has
\* already accepted a batch.
ReceiveUnlessSubmitted ==
    /\ pc = "start"
    /\ LET d == Decode(variant, data)
       IN  IF d.abort \/ history # <<>>
           THEN /\ Return
                /\ UNCHANGED <<locals, trace>>
           ELSE /\ rfidUid' = d.rfidUid
                /\ userId' = d.userId
                /\ trace' = Append(trace, [op |-> "store.query", rfid |-> d.rfidUid,
                                           scoped |-> d.scoped, userId |-> d.userId])
                /\ pc' = "awaitStore"
                /\ UNCHANGED <<albumDetails, tracks, timestamps, params, logged,
                               outcome, error>>
    /\ UNCHANGED <<outside, signing, concurrent, event, world>>

\* Entry: decode and validate the payload, then query the store.
Receive ==
    /\ pc = "start"
    /\ LET d == Decode(variant, data)
       IN  IF d.abort
           THEN /\ Return
                /\ UNCHANGED <<locals, trace>>
           ELSE /\ rfidUid' = d.rfidUid
                /\ userId' = d.userId
                /\ trace' = Append(trace, [op |-> "store.query", rfid |-> d.rfidUid,
                                           scoped |-> d.scoped, userId |-> d.userId])
                /\ pc' = "awaitStore"
                /\ UNCHANGED <<albumDetails, tracks, timestamps, params, logged,
                               outcome, error>>
    /\ UNCHANGED <<outside, signing, concurrent, event, world>>

\* Variant of the resolving step that deletes the mapping it has read.
StoreReplyConsuming ==
    /\ pc = "awaitStore"
    /\ \E reply \in StoreReplies(albums, Query, indexReady) :
        LET r   == FindAlbum(variant, reply)
            got == Append(trace, [op |-> "store.reply", reply |-> reply])
        IN  IF r.threw
            THEN /\ Catch(r.value)
                 /\ trace' = got
                 /\ UNCHANGED <<locals, albums>>
            ELSE IF ~Truthy(r.value)
            THEN /\ Return
                 /\ trace' = got
                 /\ UNCHANGED <<locals, albums>>
            ELSE /\ albumDetails' = r.value
                 /\ albums' = {d \in albums : d.id # r.value.id}
                 /\ trace' = Append(got, [op |-> "catalog.get", artist |-> r.value.artist,
                                          album |-> r.value.album])
                 /\ pc' = "awaitCatalog"
                 /\ UNCHANGED <<rfidUid, userId, tracks, timestamps, params, logged,
                                outcome, error>>
    /\ UNCHANGED <<outside, signing, concurrent, event, indexReady, clock, redeliveries, history>>

\* The store query settles; findAlbumByRfid returns or throws; on a match the
\* handler requests the tracklist.
StoreReply ==
    /\ pc = "awaitStore"
    /\ \E reply \in StoreReplies(albums, Query, indexReady) :
        LET r   == FindAlbum(variant, reply)
            got == Append(trace, [op |-> "store.reply", reply |-> reply])
        IN  IF r.threw
            THEN /\ Catch(r.value)
                 /\ trace' = got
                 /\ UNCHANGED locals
            ELSE IF ~Truthy(r.value)
            THEN /\ Return
                 /\ trace' = got
                 /\ UNCHANGED locals
            ELSE /\ albumDetails' = r.value
                 /\ trace' = Append(got, [op |-> "catalog.get", artist |-> r.value.artist,
                                          album |-> r.value.album])
                 /\ pc' = "awaitCatalog"
                 /\ UNCHANGED <<rfidUid, userId, tracks, timestamps, params, logged,
                                outcome, error>>
    /\ UNCHANGED <<outside, signing, concurrent, event, world>>

\* The catalog request settles; getAlbumTracks returns; with tracks the
\* handler enters scrobbleTracks, which builds and posts the request.
CatalogReply ==
    /\ pc = "awaitCatalog"
    /\ \E reply \in CatalogReplies :
        LET fetched == GetAlbumTracks(variant, reply)
            got     == Append(trace, [op |-> "catalog.reply", reply |-> reply])
            p       == PrepareScrobble(variant, fetched.value, albumDetails.artist,
                                       albumDetails.album, clock)
        IN  IF fetched.threw
            THEN /\ Catch(fetched.value)
                 /\ trace' = got
                 /\ UNCHANGED <<tracks, timestamps, params>>
            ELSE /\ tracks' = fetched.value
                 /\ IF NoTracks(fetched.value)
                    THEN /\ Return
                         /\ trace' = got
                         /\ UNCHANGED <<timestamps, params>>
                    ELSE IF p.threw
                    THEN /\ Catch(p.error)
                         /\ trace' = got
                         /\ UNCHANGED <<timestamps, params>>
                    ELSE /\ timestamps' = p.timestamps
                         /\ params' = p.params
                         /\ trace' = Append(got, [op |-> "scrobble.post",
                                                  form |-> FormBody(p.params)])
                         /\ pc' = "awaitSubmit"
                         /\ UNCHANGED <<outcome, error>>
    /\ UNCHANGED <<outside, signing, concurrent, event, world, rfidUid, userId, albumDetails, logged>>

Accepted(reply) ==
    reply.k = "data" /\ reply.error = 0

\* Variant of the submission step that posts the request a second time when
\* the first POST is rejected.
SubmitReplyRetry ==
    /\ pc = "awaitSubmit"
    /\ \E reply \in SubmitReplies :
        LET o     == ScrobbleOutcome(variant, reply)
            posts == {i \in 1..Len(trace) : trace[i].op = "scrobble.post"}
            got   == Append(trace, [op |-> "scrobble.reply", reply |-> reply])
        IN  /\ history' = IF reply.k = "data" /\ reply.error = 0
                          THEN Append(history, trace[Len(trace)].form)
                          ELSE history
            /\ IF reply.k = "reject" /\ Cardinality(posts) < 2
               THEN /\ trace' = Append(got, trace[Len(trace)])
                    /\ UNCHANGED <<pc, outcome, error, logged>>
               ELSE /\ trace' = got
                    /\ logged' = o.logged
                    /\ IF o.threw THEN Catch(o.error) ELSE Return
    /\ UNCHANGED <<outside, signing, concurrent, event, albums, indexReady, clock, redeliveries>>
    /\ UNCHANGED <<rfidUid, userId, albumDetails, tracks, timestamps, params>>

\* The submission settles; scrobbleTracks logs the confirmations or throws.
SubmitReply ==
    /\ pc = "awaitSubmit"
    /\ \E reply \in SubmitReplies :
        LET o == ScrobbleOutcome(variant, reply)
        IN  /\ trace' = Append(trace, [op |-> "scrobble.reply", reply |-> reply])
            /\ history' = IF Accepted(reply)
                          THEN Append(history, trace[Len(trace)].form)
                          ELSE history
            /\ logged' = o.logged
            /\ IF o.threw THEN Catch(o.error) ELSE Return
    /\ UNCHANGED <<outside, signing, concurrent, event, albums, indexReady, clock, redeliveries>>
    /\ UNCHANGED <<rfidUid, userId, albumDetails, tracks, timestamps, params>>

\* Pub/Sub redelivers an event whose invocation ended in failure: a new
\* invocation of the same handler with the same message.
Redeliver ==
    /\ pc = "done"
    /\ outcome = "threw"
    /\ redeliveries < MaxRedeliveries
    /\ redeliveries' = redeliveries + 1
    /\ clock' = clock + RedeliveryDelay
    /\ pc' = "start"
    /\ rfidUid' = <<>>
    /\ userId' = <<>>
    /\ albumDetails' = JsNull
    /\ tracks' = JsUndefined
    /\ timestamps' = <<>>
    /\ params' = EmptyObject
    /\ logged' = <<>>
    /\ outcome' = "none"
    /\ error' = JsNull
    /\ trace' = <<>>
    /\ UNCHANGED <<outside, signing, concurrent, event, albums, indexReady, history>>

\* The operator creates the composite index the error message asks for.
CreateIndex ==
    /\ ~indexReady
    /\ indexReady' = TRUE
    /\ UNCHANGED <<outside, signing, concurrent, event, albums, clock, redeliveries, history, locals, pc, outcome,
                   error, trace>>

Next ==
    \/ Receive
    \/ StoreReply
    \/ CatalogReply
    \/ SubmitReply
    \/ Redeliver
    \/ CreateIndex

Spec == Init /\ [][Next]_vars

(***************************************************************************)
(* generateApiSignature called directly, as the unit tests do: a parameter *)
(* mapping is built key by key, in any order, and then signed.             *)
(***************************************************************************)
MaxSignedParams == 3

\* Keys of a signed call, among them the indexed keys of a batch of more
\* than ten tracks.
SignatureKeys ==
    {KeyMethod, KeyApiKey, KeyFormat, IndexedKey("artist", 1), IndexedKey("artist", 10)}

\* Scalar values: a string and a number.
SignatureValues ==
    {JsStr(FormatJson), JsNum(10)}

SignatureInit ==
    /\ Init
    /\ data = JsUndefined
    /\ indexReady

\* params[key] = value
SetParam ==
    /\ \E key \in SignatureKeys, value \in SignatureValues :
        /\ \/ key \in DOMAIN signing.params.at
           \/ Len(signing.params.keys) < MaxSignedParams
        /\ Member(signing.params, key) # value
        /\ signing' = NotSigned(Assign(signing.params, key, value))
    /\ UNCHANGED <<outside, concurrent, event, world, locals, pc, outcome, error, trace>>

\* const api_sig = generateApiSignature(params)
Sign ==
    /\ signing.api_sig = JsUndefined
    /\ signing' = [params  |-> ParamsAfterSignature(variant, signing.params),
                   given   |-> signing.params,
                   api_sig |-> generateApiSignature(variant, signing.params)]
    /\ UNCHANGED <<outside, concurrent, event, world, locals, pc, outcome, error, trace>>

SignatureNext ==
    \/ SetParam
    \/ Sign

SignatureSpec == SignatureInit /\ [][SignatureNext]_vars

(***************************************************************************)
(* The unit test of generateApiSignature: the test's parameter mapping is  *)
(* built key by key, in any order, and signed.                             *)
(***************************************************************************)
\* { method: 'album.getinfo', artist: 'The Cure', album: 'Disintegration',
\*   api_key: 'test_api_key', sk: 'test_session_key' }
TestParams ==
    (KeyMethod :> JsStr(S(<<"a", "l", "b", "u", "m", ".", "g", "e", "t", "i", "n", "f", "o">>)))
    @@ (FieldNames.artist :> JsStr(S(<<"T", "h", "e", " ", "C", "u", "r", "e">>)))
    @@ (FieldNames.album :> JsStr(S(<<"D", "i", "s", "i", "n", "t", "e", "g", "r", "a", "t", "i", "o", "n">>)))
    @@ (KeyApiKey :> JsStr(S(<<"t", "e", "s", "t", "_", "a", "p", "i", "_", "k", "e", "y">>)))
    @@ (KeySk :> JsStr(S(<<"t", "e", "s", "t", "_", "s", "e", "s", "s", "i", "o", "n", "_", "k", "e", "y">>)))

\* params[key] = value, for a key of the test's mapping not yet set.
SetTestParam ==
    /\ \E key \in DOMAIN TestParams \ DOMAIN signing.params.at :
        signing' = NotSigned(Assign(signing.params, key, TestParams[key]))
    /\ UNCHANGED <<outside, concurrent, event, world, locals, pc, outcome, error, trace>>

UnitTestNext ==
    \/ SetTestParam
    \/ Sign

UnitTestSpec == SignatureInit /\ [][UnitTestNext]_vars

(***************************************************************************)
(* Two events delivered in quick succession: the awaits of the two         *)
(* invocations interleave in any order.                                    *)
(***************************************************************************)
\* What the catch block leaves an invocation with.
Caught(v, e) ==
    IF v \in CloudEventVariants
    THEN [outcome |-> "threw", error |-> e]
    ELSE [outcome |-> "returned", error |-> JsNull]

Finish(inv, end, events) ==
    [inv EXCEPT !.pc = "done", !.outcome = end.outcome, !.error = end.error,
                !.trace = inv.trace \o events]

Await(inv, at, events) ==
    [inv EXCEPT !.pc = at, !.trace = inv.trace \o events]

Returned ==
    [outcome |-> "returned", error |-> JsNull]

\* The query as it was sent when the invocation started.
SentQuery(i) ==
    [rfid   |-> invocations[i].trace[1].rfid,
     scoped |-> invocations[i].trace[1].scoped,
     userId |-> invocations[i].trace[1].userId]

\* An event arrives: decode and validate the payload, then query the store.
Invoke(i) ==
    /\ invocations[i].pc = "start"
    /\ \E d \in Payloads :
        LET dec == Decode(variant, d)
            inv == [invocations[i] EXCEPT !.data = d]
        IN  IF dec.abort
            THEN /\ invocations' = [invocations EXCEPT ![i] = Finish(inv, Returned, <<>>)]
                 /\ UNCHANGED scopes
            ELSE /\ invocations' =
                        [invocations EXCEPT ![i] =
                            Await(inv, "awaitStore",
                                  <<[op |-> "store.query", rfid |-> dec.rfidUid,
                                     scoped |-> dec.scoped, userId |-> dec.userId]>>)]
                 /\ scopes' = [scopes EXCEPT ![ScopeOf(i)].rfidUid = dec.rfidUid,
                                             ![ScopeOf(i)].userId = dec.userId]
    /\ UNCHANGED <<outside, signing, event, world, locals, pc, outcome, error, trace>>

\* The store query of invocation i settles.
Resolved(i) ==
    /\ invocations[i].pc = "awaitStore"
    /\ \E reply \in StoreReplies(albums, SentQuery(i), indexReady) :
        LET r   == FindAlbum(variant, reply)
            got == [op |-> "store.reply", reply |-> reply]
            inv == invocations[i]
        IN  IF r.threw
            THEN /\ invocations' = [invocations EXCEPT ![i] =
                                        Finish(inv, Caught(variant, r.value), <<got>>)]
                 /\ UNCHANGED scopes
            ELSE IF ~Truthy(r.value)
            THEN /\ invocations' = [invocations EXCEPT ![i] = Finish(inv, Returned, <<got>>)]
                 /\ UNCHANGED scopes
            ELSE /\ scopes' = [scopes EXCEPT ![ScopeOf(i)].albumDetails = r.value]
                 /\ invocations' =
                        [invocations EXCEPT ![i] =
                            Await(inv, "awaitCatalog",
                                  <<got, [op |-> "catalog.get", artist |-> r.value.artist,
                                          album |-> r.value.album]>>)]
    /\ UNCHANGED <<outside, signing, event, world, locals, pc, outcome, error, trace>>

\* The catalog request of invocation i settles; with tracks the invocation
\* enters scrobbleTracks with albumDetails.artist and albumDetails.album.
Fetched(i) ==
    /\ invocations[i].pc = "awaitCatalog"
    /\ \E reply \in CatalogReplies :
        LET fetched == GetAlbumTracks(variant, reply)
            got     == [op |-> "catalog.reply", reply |-> reply]
            inv     == invocations[i]
            details == scopes[ScopeOf(i)].albumDetails
            p       == PrepareScrobble(variant, fetched.value, details.artist,
                                       details.album, clock)
        IN  IF fetched.threw
            THEN /\ invocations' = [invocations EXCEPT ![i] =
                                        Finish(inv, Caught(variant, fetched.value), <<got>>)]
                 /\ UNCHANGED scopes
            ELSE /\ scopes' = [scopes EXCEPT ![ScopeOf(i)].tracks = fetched.value]
                 /\ invocations' =
                        [invocations EXCEPT ![i] =
                            IF NoTracks(fetched.value)
                            THEN Finish(inv, Returned, <<got>>)
                            ELSE IF p.threw
                            THEN Finish(inv, Caught(variant, p.error), <<got>>)
                            ELSE Await(inv, "awaitSubmit",
                                       <<got, [op |-> "scrobble.post",
                                               form |-> FormBody(p.params)]>>)]
    /\ UNCHANGED <<outside, signing, event, world, locals, pc, outcome, error, trace>>

\* The submission of invocation i settles.
Submitted(i) ==
    /\ invocations[i].pc = "awaitSubmit"
    /\ \E reply \in SubmitReplies :
        LET o   == ScrobbleOutcome(variant, reply)
            got == [op |-> "scrobble.reply", reply |-> reply]
        IN  invocations' =
                [invocations EXCEPT ![i] =
                    Finish(invocations[i],
                           IF o.threw THEN Caught(variant, o.error) ELSE Returned,
                           <<got>>)]
    /\ UNCHANGED <<outside, signing, event, world, locals, pc, outcome, error, trace, scopes>>

ConcurrentInit ==
    /\ Init
    /\ data = JsUndefined

ConcurrentNext ==
    \/ \E i \in Invocations : Invoke(i)
    \/ \E i \in Invocations : Resolved(i)
    \/ \E i \in Invocations : Fetched(i)
    \/ \E i \in Invocations : Submitted(i)

ConcurrentSpec == ConcurrentInit /\ [][ConcurrentNext]_vars

(***************************************************************************)
(* The album manager: the web page through which an owner adds, edits and  *)
(* deletes the mappings of their own collection.                           *)
(***************************************************************************)
\* The signed-in users (user.uid).
Owners ==
    {UserU1, UserU2}

\* The identifiers addDoc can give a new document.
DocIds ==
    {"doc1", "doc2"}

\* What can be typed into the RFID, artist and album fields.
RfidInputs ==
    {RfidA1, S(<<" ", "A", "1">>), S(<<"Z", "9">>), S(<<" ">>)}

ArtistInputs ==
    {S(<<"C", "u", "r", "e">>), S(<<"A", "b", "b", "a">>)}

AlbumInputs ==
    {S(<<"D", "i", "s">>)}

ManagerUnchanged ==
    UNCHANGED <<gateway, device, signing, concurrent, event, indexReady, clock, redeliveries,
                history, locals, pc, outcome, error, trace>>

\* nobody is signed in
NoUser == <<>>

\* deleteDoc calls that may be awaiting their answer at one time
MaxDeleting == 1

showLoginViewKeepingListener(m) ==
    [m EXCEPT !.view = "login", !.albumList = {}]

\* showLoginView(): the listener, if any, is unsubscribed and the list emptied
showLoginView(m) ==
    [m EXCEPT !.view = "login",
              !.listeners = IF m.unsubscribeFromAlbums THEN <<>> ELSE @,
              !.unsubscribeFromAlbums = FALSE,
              !.albumList = {}]

\* setupFirestoreListeners(): one listener on the albums collection of userId,
\* unless there is no user or a listener is already held
setupFirestoreListeners(m) ==
    IF m.userId = NoUser \/ m.unsubscribeFromAlbums
    THEN m
    ELSE [m EXCEPT !.albumsCollectionRef = m.userId,
                   !.listeners = Append(@, m.userId),
                   !.unsubscribeFromAlbums = TRUE]

\* the callback given to onAuthStateChanged
onAuthStateChanged(m, user) ==
    IF user # NoUser
    THEN setupFirestoreListeners([m EXCEPT !.currentUser = user, !.userId = user,
                                           !.view = "app"])
    ELSE showLoginView([m EXCEPT !.currentUser = NoUser])

\* main() finds a saved configuration; Firebase reports the persisted session
initializeAppAndAuth ==
    /\ manager.view = "closed"
    /\ \E user \in Owners \cup {NoUser} :
        manager' = onAuthStateChanged(manager, user)
    /\ UNCHANGED albums
    /\ ManagerUnchanged

\* the login button: signInWithPopup resolves with a Google account
signInWithPopup ==
    /\ manager.view = "login"
    /\ \E user \in Owners :
        manager' = onAuthStateChanged(manager, user)
    /\ UNCHANGED albums
    /\ ManagerUnchanged

\* the logout button, out of reach while the modal covers the page
signOut ==
    /\ manager.view = "app"
    /\ ~manager.modal
    /\ manager' = onAuthStateChanged(manager, NoUser)
    /\ UNCHANGED albums
    /\ ManagerUnchanged

\* the snapshot callback of an active listener: renderAlbums(snapshot.docs)
renderAlbums ==
    /\ manager.listeners # <<>>
    /\ manager' = [manager EXCEPT !.albumList =
                      {d.id : d \in {a \in albums : a.owner = manager.listeners[1]}}]
    /\ UNCHANGED albums
    /\ ManagerUnchanged

\* The form of the app view is submitted; docId is "" for a new album and the
\* edited row's identifier otherwise.  The write goes to albumsCollectionRef.
handleFormSubmit ==
    /\ manager.view = "app"
    /\ ~manager.modal
    /\ \E docId \in DocIds \cup {""},
          rfidInput \in RfidInputs, artistInput \in ArtistInputs, albumInput \in AlbumInputs :
        LET user   == manager.albumsCollectionRef
            rfid   == Trim(rfidInput)
            artist == Trim(artistInput)
            album  == Trim(albumInput)
            edited == {d \in albums : d.id = docId /\ d.owner = user}
        IN  IF rfid = <<>> \/ artist = <<>> \/ album = <<>>
            THEN UNCHANGED albums
            ELSE IF docId # ""
            THEN albums' = (albums \ edited) \cup
                              {[d EXCEPT !.rfid = rfid, !.artist = artist, !.album = album] :
                                  d \in edited}
            ELSE \E id \in DocIds \ {d.id : d \in albums} :
                    albums' = albums \cup {[id |-> id, owner |-> user, rfid |-> rfid,
                                            artist |-> artist, album |-> album]}
    /\ UNCHANGED manager
    /\ ManagerUnchanged

\* a Delete button of a rendered row is clicked
startDelete ==
    /\ manager.view = "app"
    /\ ~manager.modal
    /\ \E id \in manager.albumList :
        manager' = [manager EXCEPT !.docToDeleteId = id, !.modal = TRUE, !.clicked = id]
    /\ UNCHANGED albums
    /\ ManagerUnchanged

closeDeleteModalKeepingId(m) ==
    [m EXCEPT !.modal = FALSE]

\* closeDeleteModal()
closeDeleteModal(m) ==
    [m EXCEPT !.docToDeleteId = "", !.modal = FALSE]

\* the Cancel button of the modal, or a click on its backdrop
cancelDelete ==
    /\ manager.modal
    /\ manager' = closeDeleteModal(manager)
    /\ UNCHANGED albums
    /\ ManagerUnchanged

\* the Delete button of the modal: confirmDelete() up to await deleteDoc(docRef)
confirmDelete ==
    /\ manager.modal
    /\ manager.docToDeleteId # ""
    /\ Cardinality(manager.deleting) < MaxDeleting
    /\ manager' = [manager EXCEPT !.deleting =
                      @ \cup {[id |-> manager.docToDeleteId,
                               owner |-> manager.albumsCollectionRef]}]
    /\ UNCHANGED albums
    /\ ManagerUnchanged

\* deleteDoc settles, the document gone or the call rejected; finally closeDeleteModal()
deleteDoc ==
    /\ \E docRef \in manager.deleting, ok \in BOOLEAN :
        /\ albums' = IF ok
                     THEN {d \in albums : ~(d.id = docRef.id /\ d.owner = docRef.owner)}
                     ELSE albums
        /\ manager' = closeDeleteModal([manager EXCEPT !.deleting = @ \ {docRef}])
    /\ ManagerUnchanged

\* The page is opened on an empty store; no event is being handled.
ManagerInit ==
    /\ variant = HelloPubSub
    /\ data = JsUndefined
    /\ albums = {}
    /\ indexReady = TRUE
    /\ clock = FirstDeliveryTime
    /\ redeliveries = 0
    /\ history = <<>>
    /\ pc = "start"
    /\ FreshLocals
    /\ outcome = "none"
    /\ error = JsNull
    /\ trace = <<>>
    /\ signing = NotSigned(EmptyObject)
    /\ invocations = [i \in Invocations |-> NotInvoked]
    /\ scopes = [i \in Invocations |-> FreshScope]
    /\ gateway = GatewayIdle
    /\ device = DevicePoweredOn
    /\ manager = ManagerClosed

ManagerNext ==
    \/ initializeAppAndAuth
    \/ signInWithPopup
    \/ signOut
    \/ renderAlbums
    \/ handleFormSubmit
    \/ startDelete
    \/ cancelDelete
    \/ confirmDelete
    \/ deleteDoc

ManagerSpec == ManagerInit /\ [][ManagerNext]_vars

(***************************************************************************)
(* The HTTP gateway publishRfid and the Web NFC page that calls it.        *)
(***************************************************************************)
ApiKeyK1 ==
    JsStr(S(<<"k", "1">>))

\* req.method
Methods ==
    {"OPTIONS", "GET", "POST"}

\* req.get('X-API-Key'): absent, empty, the configured key, another key.
KeyHeaders ==
    {JsUndefined, JsStr(<<>>), ApiKeyK1, JsStr(S(<<"k", "2">>))}

\* req.body.rfid
BodyRfids ==
    {JsUndefined, JsNum(7), JsStr(<<>>), JsStr(S(<<" ", " ">>)), JsStr(S(<<" ", "A", "1", " ">>)),
     JsStr(S(<<"a", "1">>))}

\* Variant of the key check that accepts any key that is present.
KeyAcceptedIfPresent(apiKey, expected) ==
    Truthy(apiKey)

\* !(!apiKey || apiKey !== expectedApiKey)
KeyAccepted(apiKey, expected) ==
    Truthy(apiKey) /\ apiKey = expected

\* Variant of the final response that reports success whatever the publish did.
StatusAlwaysOk(ok) ==
    IF ok THEN 200 ELSE 200

\* The status sent once publishMessage has settled.
StatusAfterPublish(ok) ==
    IF ok THEN 200 ELSE 500

\* Buffer.from(JSON.stringify(messagePayload)), as Pub/Sub hands it on.
GatewayMessage(rfid, user) ==
    JsStr(B64Encode(JsonStringify(Trim(rfid.s), user.s)))

\* The module is loaded: the configuration is read from the environment.
LoadGateway ==
    /\ gateway.pc = "unloaded"
    /\ \E key \in {JsUndefined, ApiKeyK1}, user \in {JsUndefined, JsStr(UserU1)} :
        gateway' = [gateway EXCEPT !.pc = "idle", !.expectedApiKey = key,
                                   !.webGatewayUserId = user]
    /\ UNCHANGED <<signing, concurrent, event, world, locals, pc, outcome, error, trace,
                   device, manager>>

\* publishRfid from its entry to its first response or to the await.
Serve(origin, method, apiKey, rfid) ==
    LET req == [gateway EXCEPT !.origin = origin, !.method = method, !.apiKey = apiKey,
                               !.rfid = rfid, !.responses = <<>>, !.call = JsUndefined,
                               !.settled = "none", !.published = <<>>]
        respond(status) == [req EXCEPT !.pc = "done", !.responses = <<status>>]
    IN  IF method = "OPTIONS" THEN respond(204)
        ELSE IF method # "POST" THEN respond(405)
        ELSE IF ~Truthy(gateway.expectedApiKey) THEN respond(500)
        ELSE IF ~KeyAccepted(apiKey, gateway.expectedApiKey) THEN respond(401)
        ELSE IF InvalidField(rfid) THEN respond(400)
        ELSE IF ~Truthy(gateway.webGatewayUserId) THEN respond(500)
        ELSE [req EXCEPT !.pc = "awaitPublish",
                         !.call = GatewayMessage(rfid, gateway.webGatewayUserId)]

\* A request from any client arrives.
publishRfid ==
    /\ gateway.pc \in {"idle", "done"}
    /\ \E method \in Methods, apiKey \in KeyHeaders, rfid \in BodyRfids :
        gateway' = Serve("client", method, apiKey, rfid)
    /\ UNCHANGED <<signing, concurrent, event, world, locals, pc, outcome, error, trace,
                   device, manager>>

\* The Web NFC page has read a tag: fetch(CLOUD_FUNCTION_URL, { method: 'POST',
\* headers: { 'Content-Type': 'application/json' }, body: { rfid: uid } })
triggerScrobble ==
    /\ gateway.pc \in {"idle", "done"}
    /\ \E serialNumber \in {RfidA1, S(<<"Z", "9">>)} :
        gateway' = Serve("pwa", "POST", JsUndefined, JsStr(ToLowerCase(serialNumber)))
    /\ UNCHANGED <<signing, concurrent, event, world, locals, pc, outcome, error, trace,
                   device, manager>>

\* await pubSubClient.topic(topicName).publishMessage(...) settles.
publishMessage ==
    /\ gateway.pc = "awaitPublish"
    /\ \E ok \in BOOLEAN :
        gateway' = [gateway EXCEPT !.pc = "done",
                                   !.settled = IF ok THEN "published" ELSE "failed",
                                   !.published = IF ok THEN <<gateway.call>> ELSE <<>>,
                                   !.responses = Append(gateway.responses,
                                                        StatusAfterPublish(ok))]
    /\ UNCHANGED <<signing, concurrent, event, world, locals, pc, outcome, error, trace,
                   device, manager>>

GatewayInit ==
    /\ SignatureInit
    /\ variant = HelloPubSub

GatewayNext ==
    \/ LoadGateway
    \/ publishRfid
    \/ triggerScrobble
    \/ publishMessage

GatewaySpec == GatewayInit /\ [][GatewayNext]_vars

(***************************************************************************)
(* The deep-sleep firmware (esp32_rfid_scrobbler.ino).  One wake cycle is   *)
(* one run of setup(): every loop iteration of the sketch is one step, and  *)
(* what the radio, the broker, the reader and the tag do is chosen by the   *)
(* environment.  esp_deep_sleep_start() never returns: the next thing the   *)
(* chip does is a reset, and only an armed wake-up source causes one.       *)
(***************************************************************************)
WifiRetryLimit == 20

MqttRetryLimit == 5

ScanAttempts == 5

Uids == {S(<<"0", "4", " ", "A", "1">>), S(<<"0", "4", " ", "B", "2">>)}

DeviceUnchanged ==
    UNCHANGED <<signing, concurrent, event, world, locals, pc, outcome, error, trace,
                gateway, manager>>

\* esp_deep_sleep_start() on a path that armed nothing
DeepSleep(reason) ==
    [device EXCEPT !.pc = "asleep", !.reason = reason]

\* one turn of while (WiFi.status() != WL_CONNECTED) { delay(500); if (++retries > 20) ... }
setup_wifi ==
    /\ device.pc = "wifi"
    /\ \E connected \in BOOLEAN :
        device' = IF connected
                  THEN [device EXCEPT !.pc = "reader", !.retries = 0]
                  ELSE IF device.retries + 1 > WifiRetryLimit
                       THEN [DeepSleep("wifi") EXCEPT !.retries = device.retries + 1]
                       ELSE [device EXCEPT !.retries = device.retries + 1]
    /\ DeviceUnchanged

\* setup(): nfc.begin(); getFirmwareVersion(); sleep if the reader does not answer
setup ==
    /\ device.pc = "reader"
    /\ \E versiondata \in BOOLEAN :
        device' = IF versiondata
                  THEN [device EXCEPT !.pc = "mqtt", !.retries = 0]
                  ELSE DeepSleep("reader")
    /\ DeviceUnchanged

\* one turn of the body of while (!client.connected()) in reconnect_mqtt
reconnect_mqtt ==
    /\ device.pc = "mqtt"
    /\ \E accepted \in BOOLEAN :
        device' = IF accepted
                  THEN [device EXCEPT !.pc = "connected", !.connected = TRUE]
                  ELSE IF device.retries + 1 > MqttRetryLimit
                       THEN [DeepSleep("mqtt") EXCEPT !.retries = device.retries + 1]
                       ELSE [device EXCEPT !.retries = device.retries + 1]
    /\ DeviceUnchanged

\* the loop test of reconnect_mqtt after a successful connect: the connection
\* either still stands, or was dropped and the loop body runs again
client_connected ==
    /\ device.pc = "connected"
    /\ \E alive \in BOOLEAN :
        device' = IF alive
                  THEN [device EXCEPT !.pc = "scan", !.retries = 0, !.i = 0]
                  ELSE [device EXCEPT !.pc = "mqtt", !.connected = FALSE]
    /\ DeviceUnchanged

\* one turn of for (int i = 0; i < 5; i++) in scan_and_publish
scan_and_publish ==
    /\ device.pc = "scan"
    /\ \E success \in BOOLEAN, uid \in Uids, sent \in BOOLEAN :
        device' = IF success
                  THEN [device EXCEPT !.pc = "scanned",
                                      !.published = IF sent THEN Append(@, uid) ELSE @]
                  ELSE IF device.i + 1 < ScanAttempts
                       THEN [device EXCEPT !.i = device.i + 1]
                       ELSE [device EXCEPT !.pc = "scanned", !.i = device.i + 1]
    /\ DeviceUnchanged

\* end of setup(): esp_sleep_enable_ext0_wakeup(WAKEUP_PIN, 0); esp_deep_sleep_start()
arm_and_sleep ==
    /\ device.pc = "scanned"
    /\ device' = [DeepSleep("done") EXCEPT !.armed = TRUE, !.connected = FALSE]
    /\ DeviceUnchanged

\* the button pulls the wake-up pin low: an armed chip resets and runs setup() again
press_button ==
    /\ device.pc = "asleep"
    /\ device.armed
    /\ device' = [DevicePoweredOn EXCEPT !.cause = "button"]
    /\ DeviceUnchanged

Firmware ==
    \/ setup_wifi
    \/ setup
    \/ reconnect_mqtt
    \/ client_connected
    \/ scan_and_publish
    \/ arm_and_sleep

DeviceInit ==
    /\ SignatureInit
    /\ variant = HelloPubSub

DeviceNext ==
    \/ setup_wifi
    \/ setup
    \/ reconnect_mqtt
    \/ client_connected
    \/ scan_and_publish
    \/ arm_and_sleep
    \/ press_button

DeviceSpec == DeviceInit /\ [][DeviceNext]_vars

\* the sketch keeps running while it is awake: a step it can take, it takes
FairDeviceSpec == DeviceSpec /\ WF_vars(Firmware)

(***************************************************************************)
(* Properties.                                                             *)
(***************************************************************************)
Has(op) ==
    \E i \in 1..Len(trace) : trace[i].op = op

Count(op) ==
    Cardinality({i \in 1..Len(trace) : trace[i].op = op})

EventOf(op) ==
    trace[CHOOSE i \in 1..Len(trace) : trace[i].op = op]

\* The store query failed (whatever the error).
ResolverRaised ==
    Has("store.reply") /\ EventOf("store.reply").reply.k = "error"

\* The submission was rejected by the transport or by the API.
SubmitterRaised ==
    /\ Has("scrobble.reply")
    /\ \/ EventOf("scrobble.reply").reply.k = "reject"
       \/ EventOf("scrobble.reply").reply.error # 0

\* C1: in every entry-point variant an exception raised by the Album Resolver
\* or by the Scrobble Submitter propagates out of the handler, so that the
\* invocation ends in failure.
C1_ExceptionsPropagate ==
    (pc = "done" /\ (ResolverRaised \/ SubmitterRaised)) => outcome = "threw"

\* The catalog request failed transiently: no response, an HTTP error, or a
\* response carrying an error code.
CatalogFailed ==
    /\ Has("catalog.reply")
    /\ \/ EventOf("catalog.reply").reply.k = "reject"
       \/ EventOf("catalog.reply").reply.error # 0

CatalogWithoutTracks ==
    /\ Has("catalog.reply")
    /\ \/ EventOf("catalog.reply").reply.k = "reject"
       \/ EventOf("catalog.reply").reply.error # 0
       \/ EventOf("catalog.reply").reply.album \in {"absent", "noTracks", "noTrack"}

\* C3: getAlbumTracks of the helloPubSub variants never raises: whatever the
\* catalog request settles with, it returns a list, and the empty list for a
\* transport error, an HTTP error, an error code or missing album/track data.
C3_FetcherNeverRaises ==
    (variant \in CloudEventVariants /\ Has("catalog.reply")) =>
        /\ tracks.t = "array"
        /\ (CatalogWithoutTracks =>
                tracks = JsArray(<<>>) /\ pc = "done" /\ outcome = "returned")

C3_Witness ==
    /\ variant = HelloPubSubDocumented
    /\ Has("catalog.reply")
    /\ EventOf("catalog.reply").reply.k = "data"
    /\ EventOf("catalog.reply").reply.album = "noTrack"
    /\ tracks = JsArray(<<>>)

\* Payloads without an identifier: no data, empty data, or the base64 text of
\* nothing but whitespace.
BlankPayloads ==
    {JsUndefined, JsStr(<<>>)}
    \cup {JsStr(B64Encode(text)) : text \in {S(<<" ">>), S(<<" ", " ">>)}}

\* C4: in the helloPubSub variants a payload that is missing, empty or decodes
\* to an identifier that is empty after trimming ends the invocation normally
\* with no store query, no catalog request and no submission request.
C4_BlankPayloadAborts ==
    (variant \in CloudEventVariants /\ data \in BlankPayloads /\ pc # "start") =>
        /\ pc = "done"
        /\ outcome = "returned"
        /\ trace = <<>>

C4_Witness ==
    /\ variant = HelloPubSub
    /\ data = JsStr(B64Encode(S(<<" ", " ">>)))
    /\ pc = "done"

\* The store answered the query with an empty snapshot.
NoMapping ==
    /\ Has("store.reply")
    /\ EventOf("store.reply").reply.k = "snapshot"
    /\ EventOf("store.reply").reply.docs = <<>>

\* C5: when the Resolver finds no mapping the invocation ends normally and
\* makes neither a catalog request nor a submission request.
C5_NoMappingAborts ==
    NoMapping =>
        /\ pc = "done"
        /\ outcome = "returned"
        /\ ~Has("catalog.get")
        /\ ~Has("scrobble.post")

C5_Witness ==
    /\ variant = HelloPubSub
    /\ NoMapping
    /\ pc = "done"

\* C6: when the identifier resolves to an album and the Fetcher yields no
\* tracks, the pipeline completes without a submission request and without
\* raising a failure.
C6_EmptyTracklistAborts ==
    (Has("catalog.reply") /\ tracks = JsArray(<<>>)) =>
        /\ albumDetails # JsNull
        /\ pc = "done"
        /\ outcome = "returned"
        /\ ~Has("scrobble.post")

C6_Witness ==
    /\ variant = HelloPubSub
    /\ Has("catalog.reply")
    /\ EventOf("catalog.reply").reply.k = "data"
    /\ EventOf("catalog.reply").reply.album = "track"
    /\ tracks = JsArray(<<>>)
    /\ pc = "done"

CallOrder ==
    <<"store.query", "store.reply", "catalog.get", "catalog.reply",
      "scrobble.post", "scrobble.reply">>

\* The track[i] indices a form carries.
TrackIndices(form) ==
    {i \in 0..(MaxTracks + 1) : IndexedKey("track", i) \in DOMAIN form}

\* C7: within one invocation the external calls happen in the order store
\* query, catalog request, submission request, each after the previous one
\* returned; the catalog request follows a reply with a mapping and carries
\* its artist and album; the submission request follows a non-empty fetch and
\* carries exactly the fetched list.
C7_SequentialCalls ==
    LET n == Len(trace)
    IN  /\ n <= Len(CallOrder)
        /\ \A i \in 1..n : trace[i].op = CallOrder[i]
        /\ n >= 1 => trace[1].rfid = rfidUid
        /\ n >= 3 =>
            /\ trace[2].reply.k = "snapshot"
            /\ trace[2].reply.docs # <<>>
            /\ trace[3].artist = trace[2].reply.docs[1].artist
            /\ trace[3].album = trace[2].reply.docs[1].album
        /\ n >= 5 =>
            /\ tracks.t = "array"
            /\ Len(tracks.items) >= 1
            /\ TrackIndices(trace[5].form) = 0..(Len(tracks.items) - 1)
            /\ \A i \in 1..Len(tracks.items) :
                 trace[5].form[IndexedKey("track", i - 1)] = JsStr(tracks.items[i].name)

C7_Witness ==
    /\ variant = HelloPubSub
    /\ Len(trace) = 6
    /\ Len(tracks.items) = 2

\* C8: an invocation makes no submission request or exactly one; after a
\* resolution and a fetch of n >= 1 tracks exactly one request is issued,
\* with method track.scrobble and artist[i], album[i], track[i], timestamp[i]
\* for every i in 0..n-1, track[i] being the i-th fetched name and artist[i],
\* album[i] those of the resolved mapping.
C8_OneCompleteSubmission ==
    /\ Count("scrobble.post") <= 1
    /\ (albumDetails # JsNull /\ tracks.t = "array" /\ Len(tracks.items) >= 1) =>
        /\ Count("scrobble.post") = 1
        /\ LET form == EventOf("scrobble.post").form
           IN  /\ form[KeyMethod] = JsStr(TrackScrobble)
               /\ \A i \in 0..(Len(tracks.items) - 1) :
                    /\ \A f \in {"artist", "album", "track", "timestamp"} :
                         IndexedKey(f, i) \in DOMAIN form
                    /\ form[IndexedKey("track", i)] = JsStr(tracks.items[i + 1].name)
                    /\ form[IndexedKey("artist", i)] = JsStr(albumDetails.artist)
                    /\ form[IndexedKey("album", i)] = JsStr(albumDetails.album)

C8_Witness ==
    /\ variant = HelloPubSub
    /\ pc = "awaitSubmit"
    /\ Len(tracks.items) = 2
    /\ Count("scrobble.post") = 1

\* C9: no component retries internally: one invocation queries the store at
\* most once, calls the catalog API at most once and the submission API at
\* most once, also after a failed call; the pipeline starts again only when
\* the transport redelivers an event whose invocation failed.
C9_NoInternalRetry ==
    /\ [](/\ Count("store.query") <= 1
          /\ Count("catalog.get") <= 1
          /\ Count("scrobble.post") <= 1)
    /\ [][(pc # "start" /\ pc' = "start") =>
            (outcome = "threw" /\ redeliveries' = redeliveries + 1)]_vars

C9_Witness ==
    /\ variant = HelloPubSub
    /\ pc = "done"
    /\ SubmitterRaised
    /\ Count("store.query") = 1
    /\ Count("catalog.get") = 1
    /\ Count("scrobble.post") = 1

\* C10: for n >= 1 tracks and invocation time now, timestamp[n-1] = now and
\* adjacent timestamps differ by exactly 180, so that they increase strictly
\* in list order and none is later than now.
C10_Timestamps ==
    Has("scrobble.post") =>
        LET n == Len(tracks.items)
        IN  /\ n >= 1
            /\ Len(timestamps) = n
            /\ timestamps[n] = clock
            /\ \A j \in 1..(n - 1) :
                 /\ timestamps[j + 1] - timestamps[j] = 180
                 /\ timestamps[j] < timestamps[j + 1]
            /\ \A j \in 1..n :
                 /\ timestamps[j] <= clock
                 /\ Member(params, IndexedKey("timestamp", j - 1)) = JsNum(timestamps[j])

C10_Witness ==
    /\ Has("scrobble.post")
    /\ Len(timestamps) = 2
    /\ redeliveries = 1

\* A call of generateApiSignature has returned.
Signed ==
    signing.api_sig # JsUndefined

\* The mapping `obj` with its keys inserted in the order q gives them.
Reordered(obj, q) ==
    [keys |-> [i \in 1..Len(obj.keys) |-> obj.keys[q[i]]], at |-> obj.at]

\* C11: generateApiSignature is deterministic and independent of key order:
\* the digest a call returned is the digest of every mapping holding the same
\* key-value pairs, whatever the order in which the keys were inserted.
C11_OrderIndependent ==
    Signed =>
        \A q \in Permutations(1..Len(signing.given.keys)) :
            generateApiSignature(variant, Reordered(signing.given, q)) = signing.api_sig

C11_Witness ==
    /\ variant = HelloPubSub
    /\ Signed
    /\ Len(signing.given.keys) = MaxSignedParams
    /\ KeyFormat \notin DOMAIN signing.given.at
    /\ signing.given.keys # Sort(signing.given.keys)
    /\ signing.given.keys[1] = Sort(signing.given.keys)[Len(signing.given.keys)]

\* Ordinal (code by code) order of two strings, a proper prefix first.
RECURSIVE OrdinalLess(_, _)
OrdinalLess(a, b) ==
    IF b = <<>> THEN FALSE
    ELSE IF a = <<>> THEN TRUE
    ELSE IF Head(a) # Head(b) THEN Head(a) < Head(b)
    ELSE OrdinalLess(Tail(a), Tail(b))

\* The keys of `obj` other than format, in ascending ordinal order: each key
\* stands after exactly the keys that are less than it.
ReferenceOrder(obj) ==
    LET keys == DOMAIN obj.at \ {KeyFormat}
        n    == Cardinality(keys)
        rank(k) == 1 + Cardinality({o \in keys : OrdinalLess(o, k)})
    IN  [i \in 1..n |-> CHOOSE k \in keys : rank(k) = i]

\* key1 value1 key2 value2 ... from position i of the order q on.
RECURSIVE ReferencePairs(_, _, _)
ReferencePairs(obj, q, i) ==
    IF i > Len(q) THEN <<>>
    ELSE q[i] \o JsToString(obj.at[q[i]]) \o ReferencePairs(obj, q, i + 1)

\* The reference construction of the signed string.
ReferenceString(obj, secret) ==
    ReferencePairs(obj, ReferenceOrder(obj), 1) \o secret

\* C12: in the helloPubSub variants the string generateApiSignature digests
\* is the reference construction: the keys without format in ascending
\* ordinal order, each followed by its value, then the shared secret; also
\* for indexed keys of two digits (artist[10] sorts before artist[1]).
C12_SignedString ==
    (variant \in CloudEventVariants /\ Signed) =>
        signing.api_sig.of = ReferenceString(signing.given, LASTFM_API_SECRET)

C12_Witness ==
    /\ variant = HelloPubSubDocumented
    /\ Signed
    /\ signing.given.keys =
            <<IndexedKey("artist", 1), KeyFormat, IndexedKey("artist", 10)>>
    /\ signing.api_sig.of =
            IndexedKey("artist", 10) \o JsToString(signing.given.at[IndexedKey("artist", 10)])
            \o IndexedKey("artist", 1) \o JsToString(signing.given.at[IndexedKey("artist", 1)])
            \o LASTFM_API_SECRET

\* C13: the digest generateApiSignature returned does not depend on the
\* format key (it is the digest of the mapping without format, and of the
\* mapping with any format value), and the caller's mapping is as it was.
C13_FormatIgnored ==
    Signed =>
        /\ generateApiSignature(variant, Delete(signing.given, KeyFormat)) = signing.api_sig
        /\ \A value \in SignatureValues :
              generateApiSignature(variant, Assign(signing.given, KeyFormat, value))
                  = signing.api_sig
        /\ signing.params = signing.given

\* The parameters of the submission request other than api_sig and format.
SignedSet ==
    Delete(Delete(params, KeyApiSig), KeyFormat)

\* C14: the signature attached to a submission request is the digest of the
\* request's parameters minus api_sig and format, and those are exactly
\* method, sk, api_key and the four indexed entries of every fetched track.
C14_SignedParameterSet ==
    Has("scrobble.post") =>
        LET form == EventOf("scrobble.post").form
        IN  /\ {KeyApiSig, KeyFormat} \subseteq DOMAIN form
            /\ DOMAIN form = DOMAIN params.at
            /\ form[KeyApiSig] = Member(params, KeyApiSig)
            /\ form[KeyApiSig].t = "md5"
            /\ form[KeyApiSig].of = ReferenceString(SignedSet, LASTFM_API_SECRET)
            /\ DOMAIN SignedSet.at =
                    {KeyMethod, KeySk, KeyApiKey}
                    \cup {IndexedKey(f, i - 1) :
                            f \in DOMAIN FieldNames, i \in 1..Len(tracks.items)}

C14_Witness ==
    /\ variant = ScrobbleAlbum
    /\ Has("scrobble.post")
    /\ Len(tracks.items) = MaxTracks
    /\ params.keys[Len(params.keys)] = KeyFormat
    /\ params.keys[Len(params.keys) - 1] = KeyApiSig

\* The store answered the query with a snapshot.
StoreAnswered ==
    Has("store.reply") /\ EventOf("store.reply").reply.k = "snapshot"

\* C15: when the store reports zero matches findAlbumByRfid returns null and
\* raises nothing; when it reports a match the record returned holds the
\* matched document's identifier as id and the document's stored fields.
C15_ResolverResult ==
    StoreAnswered =>
        LET docs == EventOf("store.reply").reply.docs
        IN  IF docs = <<>>
            THEN albumDetails = JsNull /\ pc = "done" /\ outcome = "returned"
            ELSE /\ docs[1] \in albums
                 /\ albumDetails = [t |-> "object", id |-> docs[1].id,
                                    rfid |-> docs[1].rfid, artist |-> docs[1].artist,
                                    album |-> docs[1].album]

C15_Witness ==
    /\ variant = HelloPubSub
    /\ StoreAnswered
    /\ albumDetails # JsNull
    /\ albumDetails.id = "doc2"
    /\ albumDetails.rfid = rfidUid

\* The store rejected the query with FAILED_PRECONDITION (code 9).
IndexMissing ==
    /\ Has("store.reply")
    /\ EventOf("store.reply").reply.k = "error"
    /\ EventOf("store.reply").reply.error.code = 9

\* The diagnostic text a store error carries: its details, or else the text
\* of its message.
DiagnosticText(e) ==
    IF e.hasDetails THEN e.details ELSE e.message[Len(e.message)]

\* C16: for every store error with code 9 findAlbumByRfid raises an error
\* distinct from the store's, whose message embeds the store error's
\* diagnostic text verbatim.
C16_IndexErrorWrapped ==
    IndexMissing =>
        LET e == EventOf("store.reply").reply.error
            r == FindAlbum(variant, EventOf("store.reply").reply)
        IN  /\ r.threw
            /\ r.value # e
            /\ \E i \in DOMAIN r.value.message : r.value.message[i] = DiagnosticText(e)

\* The store rejected the query with an error other than FAILED_PRECONDITION.
StoreFailedOtherwise ==
    /\ Has("store.reply")
    /\ EventOf("store.reply").reply.k = "error"
    /\ EventOf("store.reply").reply.error.code # 9

\* C17: every store error other than the missing-index failure leaves
\* findAlbumByRfid as the very error the store raised: not wrapped, not
\* replaced, not turned into null; the rethrowing handlers end with it.
C17_OtherErrorsUnchanged ==
    StoreFailedOtherwise =>
        LET e == EventOf("store.reply").reply.error
            r == FindAlbum(variant, EventOf("store.reply").reply)
        IN  /\ r.threw
            /\ r.value = e
            /\ albumDetails = JsNull
            /\ (variant \in CloudEventVariants => outcome = "threw" /\ error = e)

C17_Witness ==
    /\ variant = HelloPubSub
    /\ StoreFailedOtherwise
    /\ error.code = 14
    /\ error.message = <<"14 UNAVAILABLE: ", "The service is currently unavailable.">>

\* The catalog answered with track data.
CatalogHasTracks ==
    /\ Has("catalog.reply")
    /\ EventOf("catalog.reply").reply.k = "data"
    /\ EventOf("catalog.reply").reply.error = 0
    /\ EventOf("catalog.reply").reply.album = "track"

\* C18: getAlbumTracks always returns a list; a track entry that is a single
\* object yields the list holding just it, a track entry that is a list
\* yields that list, same elements, same order.
C18_FetcherReturnsList ==
    Has("catalog.reply") =>
        /\ tracks.t = "array"
        /\ (CatalogHasTracks =>
                LET track == EventOf("catalog.reply").reply.track
                IN  tracks = IF track.t = "array" THEN track ELSE JsArray(<<track>>))

\* The submission API answered with an API-level error code.
SubmissionRefused ==
    /\ Has("scrobble.reply")
    /\ EventOf("scrobble.reply").reply.k = "data"
    /\ EventOf("scrobble.reply").reply.error # 0

\* C19: when the submission response reports an API-level error code,
\* scrobbleTracks raises a failure that carries both the error code and the
\* error message of the response.
C19_FailureCarriesCodeAndMessage ==
    SubmissionRefused =>
        LET reply == EventOf("scrobble.reply").reply
            o     == ScrobbleOutcome(variant, reply)
        IN  /\ o.threw
            /\ o.error.apiCode = reply.error
            /\ \E i \in DOMAIN o.error.message : o.error.message[i] = reply.message

\* The submission was accepted and every confirmation names what the
\* variant's log line reads.
SubmissionConfirmed ==
    /\ Has("scrobble.reply")
    /\ Accepted(EventOf("scrobble.reply").reply)
    /\ EventOf("scrobble.reply").reply.scrobbles \in {"single", "list"}
    /\ LET reply == EventOf("scrobble.reply").reply
           list  == IF reply.scrobbles = "list" THEN reply.scrobble ELSE <<reply.scrobble>>
       IN  \A i \in 1..Len(list) : ScrobbleEntryComplete(variant, list[i])

\* C20: in the helloPubSub variants with extended logging, on a response
\* without error code the confirmations scrobbleTracks logs are a list: a
\* single confirmation object gives the list of length 1 holding it, a list
\* of k confirmations gives the k confirmations in the same order.
C20_ConfirmationsNormalized ==
    (variant \in ExtendedLoggingVariants /\ SubmissionConfirmed) =>
        LET reply == EventOf("scrobble.reply").reply
        IN  /\ outcome = "returned"
            /\ IF reply.scrobbles = "list"
               THEN logged = reply.scrobble
               ELSE Len(logged) = 1 /\ logged[1] = reply.scrobble

C20_Witness ==
    /\ variant = HelloPubSubDocumented
    /\ SubmissionConfirmed
    /\ EventOf("scrobble.reply").reply.scrobbles = "single"
    /\ Len(logged) = 1

\* Payloads that decode to a bare identifier, and one that decodes to the
\* JSON object the HTTP gateway publishes for tag A1.
BareIdentifiers ==
    {S(<<" ", "A", "1", " ">>), S(<<"Z", "9">>), S(<<"a", "1">>)}

GatewayPayload ==
    JsStr(B64Encode(JsonStringify(RfidA1, UserU1)))

\* C21: the decode step supports both payload shapes: for a base64 payload
\* that decodes to a bare identifier and for one that decodes to the JSON
\* object {rfid, userId}, the store is queried with the tag's rfid value.
C21_BothShapesDecoded ==
    pc # "start" =>
        /\ \A text \in BareIdentifiers :
              data = JsStr(B64Encode(text)) =>
                  Has("store.query") /\ EventOf("store.query").rfid = Trim(text)
        /\ (data = GatewayPayload =>
                Has("store.query") /\ EventOf("store.query").rfid = RfidA1)

\* C22: in every variant the identifier the store is queried with is
\* normalized: it is not empty and carries no leading or trailing white space.
C22_LookupIdentifierNormalized ==
    Has("store.query") =>
        /\ EventOf("store.query").rfid # <<>>
        /\ Trim(EventOf("store.query").rfid) = EventOf("store.query").rfid

\* The documents a query would see were identifiers compared without regard
\* to letter case.
MatchingIgnoringCase(docs, q) ==
    {d \in docs : /\ ToLowerCase(d.rfid) = ToLowerCase(q.rfid)
                  /\ (q.scoped => d.owner = q.userId)}

\* C23: identifiers match case-insensitively: whenever the store answers a
\* query whose identifier equals a stored mapping's identifier up to letter
\* case, the answer holds a mapping, and it is one of those mappings.
C23_CaseInsensitiveMatch ==
    (Has("store.reply") /\ EventOf("store.reply").reply.k = "snapshot"
        /\ MatchingIgnoringCase(albums, EventOf("store.query")) # {}) =>
            /\ EventOf("store.reply").reply.docs # <<>>
            /\ EventOf("store.reply").reply.docs[1]
                   \in MatchingIgnoringCase(albums, EventOf("store.query"))

\* The mappings with the queried identifier under the queried owner.
OwnMappings ==
    {d \in albums : /\ d.rfid = EventOf("store.query").rfid
                    /\ d.owner = EventOf("store.query").userId}

\* The mappings with the queried identifier under any owner.
AllMappings ==
    {d \in albums : d.rfid = EventOf("store.query").rfid}

SnapshotWithin(set) ==
    /\ EventOf("store.reply").reply.docs = <<>> <=> set = {}
    /\ \A i \in DOMAIN EventOf("store.reply").reply.docs :
          EventOf("store.reply").reply.docs[i] \in set
    /\ albumDetails # JsNull => albumDetails.id \in {d.id : d \in set}

\* C24: a trigger that carries an owner identifier (the per-user handler) is
\* answered only from that owner's collection, never with another owner's
\* mapping of the same rfid; a trigger that carries none is answered from
\* the mappings of all owners.
C24_OwnerScopedLookup ==
    (Has("store.reply") /\ EventOf("store.reply").reply.k = "snapshot") =>
        /\ EventOf("store.query").scoped <=> variant = ScrobbleAlbumForUser
        /\ EventOf("store.query").scoped => SnapshotWithin(OwnMappings)
        /\ ~EventOf("store.query").scoped => SnapshotWithin(AllMappings)

\* The per-user handler resolved the second owner's mapping although the
\* first owner maps the same rfid.
C24_Witness ==
    /\ variant = ScrobbleAlbumForUser
    /\ Has("store.reply") /\ EventOf("store.reply").reply.k = "snapshot"
    /\ EventOf("store.query").userId = UserU2
    /\ albumDetails # JsNull /\ albumDetails.id = "doc2"
    /\ \E d \in albums : d.rfid = EventOf("store.query").rfid /\ d.owner = UserU1

\* C25: no step of the pipeline, whatever the invocation's outcome, changes
\* the album store: the set of mappings and their fields stay as they were.
C25_StoreNeverMutated ==
    [][albums' = albums]_vars

\* An invocation ran to the end of the pipeline, its submission accepted,
\* with the store as it was at the start.
C25_Witness ==
    /\ pc = "done"
    /\ Has("store.reply") /\ Has("scrobble.reply")
    /\ Accepted(EventOf("scrobble.reply").reply)
    /\ albums = Albums

IsReply(e) ==
    e.op \in {"store.reply", "catalog.reply", "scrobble.reply"}

\* The responses an invocation has received to its own calls, in order.
OwnReplies(i) ==
    SelectSeq(invocations[i].trace, IsReply)

\* What the handler does with payload d when it runs alone and its calls
\* are answered with `replies`: where it stands, how it ended, the calls it made.
Alone(v, d, replies) ==
    LET dec     == Decode(v, d)
        query   == [op |-> "store.query", rfid |-> dec.rfidUid, scoped |-> dec.scoped,
                    userId |-> dec.userId]
        r       == FindAlbum(v, replies[1].reply)
        get     == [op |-> "catalog.get", artist |-> r.value.artist,
                    album |-> r.value.album]
        fetched == GetAlbumTracks(v, replies[2].reply)
        p       == PrepareScrobble(v, fetched.value, r.value.artist, r.value.album, clock)
        post    == [op |-> "scrobble.post", form |-> FormBody(p.params)]
        o       == ScrobbleOutcome(v, replies[3].reply)
        at(where, calls)  == [pc |-> where, end |-> [outcome |-> "none", error |-> JsNull],
                              trace |-> calls]
        end(how, calls)   == [pc |-> "done", end |-> how, trace |-> calls]
    IN  IF dec.abort THEN end(Returned, <<>>)
        ELSE IF Len(replies) = 0 THEN at("awaitStore", <<query>>)
        ELSE IF r.threw THEN end(Caught(v, r.value), <<query, replies[1]>>)
        ELSE IF ~Truthy(r.value) THEN end(Returned, <<query, replies[1]>>)
        ELSE IF Len(replies) = 1 THEN at("awaitCatalog", <<query, replies[1], get>>)
        ELSE IF fetched.threw
             THEN end(Caught(v, fetched.value), <<query, replies[1], get, replies[2]>>)
        ELSE IF NoTracks(fetched.value)
             THEN end(Returned, <<query, replies[1], get, replies[2]>>)
        ELSE IF p.threw
             THEN end(Caught(v, p.error), <<query, replies[1], get, replies[2]>>)
        ELSE IF Len(replies) = 2
             THEN at("awaitSubmit", <<query, replies[1], get, replies[2], post>>)
        ELSE end(IF o.threw THEN Caught(v, o.error) ELSE Returned,
                 <<query, replies[1], get, replies[2], post, replies[3]>>)

AsIfAlone(i) ==
    LET inv  == invocations[i]
        solo == Alone(variant, inv.data, OwnReplies(i))
    IN  /\ inv.pc = solo.pc
        /\ inv.outcome = solo.end.outcome
        /\ inv.error = solo.end.error
        /\ inv.trace = solo.trace

\* C26: under every interleaving of the external calls of two invocations,
\* each invocation stands where, ends as, and sends the requests (among them
\* the submission with its artist, album and track names in order) that its
\* own payload and the responses to its own calls determine when it runs alone.
C26_InvocationsIndependent ==
    \A i \in Invocations : invocations[i].pc # "start" => AsIfAlone(i)

\* Both invocations resolved a mapping, a different album each, before the
\* first one built its submission; the second still awaits its tracklist.
C26_Witness ==
    /\ invocations[1].pc = "awaitSubmit"
    /\ invocations[2].pc = "awaitCatalog"
    /\ scopes[1].albumDetails.id = "doc1"
    /\ scopes[2].albumDetails.id = "doc2"
    /\ invocations[1].trace[Len(invocations[1].trace)].form[IndexedKey("artist", 0)]
          = JsStr(S(<<"C", "u", "r", "e">>))

AcceptedNow ==
    Has("scrobble.reply") /\ Accepted(EventOf("scrobble.reply").reply)

\* This delivery is a redelivery and an earlier delivery's submission was accepted.
PreviouslyAccepted ==
    redeliveries > 0 /\ Len(history) > (IF AcceptedNow THEN 1 ELSE 0)

\* The scrobbles a submitted form asks for: artist, album and track per index.
Scrobbled(form) ==
    {<<k, form[k]>> : k \in {key \in DOMAIN form :
        \E i \in 0..MaxTracks, f \in {"artist", "album", "track"} : key = IndexedKey(f, i)}}

FetchedTracks ==
    GetAlbumTracks(variant, EventOf("catalog.reply").reply).value

\* C27: nothing remembers an accepted submission: a redelivery that follows
\* one starts with fresh locals, queries the store again, and whenever its
\* tracklist is not empty posts a complete submission built from this run's
\* album and tracks, which the service accepts as a second batch.
C27_RedeliveryResubmits ==
    PreviouslyAccepted =>
        /\ pc = "start" => FreshLocals /\ trace = <<>>
        /\ pc # "start" => Has("store.query")
        /\ (Has("catalog.reply") /\ FetchedTracks.t = "array"
                /\ Len(FetchedTracks.items) > 0) =>
              /\ Has("scrobble.post")
              /\ EventOf("scrobble.post").form =
                    FormBody(PrepareScrobble(variant, FetchedTracks, albumDetails.artist,
                                             albumDetails.album, clock).params)
        /\ AcceptedNow =>
              /\ Len(history) >= 2
              /\ history[Len(history)] = EventOf("scrobble.post").form

\* Two accepted batches for one event, asking for the same scrobbles.
C27_Witness ==
    /\ redeliveries = 1
    /\ Len(history) = 2
    /\ Scrobbled(history[1]) = Scrobbled(history[2])
    /\ Scrobbled(history[1]) # {}
    /\ history[1] # history[2]

\* How a delivery answered with the missing-index failure ends.
EndsInIndexError ==
    /\ pc = "done"
    /\ outcome = "threw"
    /\ error.name = "Error"
    /\ error.message = IndexErrorMessage(variant, EventOf("store.reply").reply.error)
    /\ error.cause = EventOf("store.reply").reply.error.message
    /\ ~Has("catalog.get")
    /\ ~Has("scrobble.post")
    /\ (redeliveries < MaxRedeliveries => ENABLED Redeliver)

\* C28: in the handlers that label the failure, every delivery and
\* redelivery that the store answers with the missing-index failure ends in
\* the labelled index error, with no catalog or submission request, and
\* leaves the event to be redelivered; the store raises the failure only
\* while the index is missing, so a delivery after the index was created
\* is answered by the query and goes on.
C28_IndexErrorRepeats ==
    /\ [](variant \in ExtendedLoggingVariants /\ IndexMissing => EndsInIndexError)
    /\ [][(pc = "awaitStore" /\ pc' # "awaitStore" /\ indexReady) =>
            /\ trace'[Len(trace) + 1].reply \notin {[k |-> "error", error |-> e] : e \in IndexErrors}
            /\ (trace'[Len(trace) + 1].reply.k = "snapshot"
                    /\ trace'[Len(trace) + 1].reply.docs # <<>> => pc' = "awaitCatalog")]_vars

\* The redelivery, too, ended in the labelled index error: the index is
\* still missing.
C28_Witness ==
    /\ variant = HelloPubSub
    /\ redeliveries = 1
    /\ ~indexReady
    /\ IndexMissing
    /\ EndsInIndexError

\* C29: after any sequence of add, edit and delete operations of the album
\* manager no two mappings carry the same rfid, neither within one owner's
\* collection nor across owners.
C29_OneMappingPerRfid ==
    \A d1 \in albums, d2 \in albums : d1.rfid = d2.rfid => d1 = d2

\* The test's mapping, complete, has been signed.
TestParamsSigned ==
    /\ signing.api_sig # JsUndefined
    /\ DOMAIN signing.given.at = DOMAIN TestParams
    /\ \A key \in DOMAIN TestParams : signing.given.at[key] = TestParams[key]

\* The signed string with the text of an unset secret in the secret's place:
\* signatureString += undefined
SignedWithSecretUnset ==
    SubSeq(signing.api_sig.of, 1, Len(signing.api_sig.of) - Len(LASTFM_API_SECRET))
    \o JsToString(JsUndefined)

DocumentedDigest ==
    S(<<"5", "1", "9", "5", "7", "6", "9", "6", "5", "7", "2", "5", "9", "0", "7", "0",
        "9", "8", "0", "b", "7", "3", "3", "7", "9", "4", "0", "7", "9", "e", "4", "6">>)

\* C30: for the test's parameters and the shared secret test_api_secret,
\* generateApiSignature yields the digest 5195769657259070980b733794079e46.
C30_DocumentedDigest ==
    TestParamsSigned => md5(signing.api_sig.of) = DocumentedDigest

\* C30, as the code has it: with the shared secret test_api_secret the digest
\* is 15029e685a9cc0fd0e4b90df9f5cf5c9; the documented digest is the one of
\* the same parameters followed by the text "undefined", which is what is
\* signed when the secret is not set.
C30_DigestForSecret ==
    TestParamsSigned =>
        /\ md5(signing.api_sig.of) =
              S(<<"1", "5", "0", "2", "9", "e", "6", "8", "5", "a", "9", "c", "c", "0", "f", "d",
              "0", "e", "4", "b", "9", "0", "d", "f", "9", "f", "5", "c", "f", "5", "c", "9">>)
        /\ md5(SignedWithSecretUnset) = DocumentedDigest

\* The test's mapping, built in the order the test writes it, is signed.
C30_Witness ==
    /\ TestParamsSigned
    /\ signing.given.keys =
          <<KeyMethod, FieldNames.artist, FieldNames.album, KeyApiKey, KeySk>>
    /\ variant = HelloPubSub

\* C31: once the submission API has answered without an error code the
\* invocation returns normally, whatever the shape of the confirmation echo:
\* it does not end in failure and is not redelivered.
C31_AcceptedNeverFails ==
    AcceptedNow =>
        /\ pc = "done"
        /\ outcome = "returned"
        /\ ~ENABLED Redeliver

\* The request in hand passes every check of the gateway.
RequestAdmissible ==
    /\ gateway.method = "POST"
    /\ gateway.expectedApiKey.t = "string" /\ gateway.expectedApiKey.s # <<>>
    /\ gateway.apiKey = gateway.expectedApiKey
    /\ gateway.rfid.t = "string" /\ Trim(gateway.rfid.s) # <<>>
    /\ gateway.webGatewayUserId.t = "string" /\ gateway.webGatewayUserId.s # <<>>

\* C32: the gateway calls publish, and a message reaches the topic, only for
\* a POST whose X-API-Key equals the configured key, whose rfid is a string
\* not empty after trimming, with the gateway user id configured; the message
\* is the trimmed rfid with that user id. Every other request publishes nothing.
C32_PublishOnlyWhenAuthorized ==
    /\ (gateway.call # JsUndefined \/ gateway.published # <<>>) =>
          /\ RequestAdmissible
          /\ gateway.call = JsStr(B64Encode(JsonStringify(Trim(gateway.rfid.s),
                                                         gateway.webGatewayUserId.s)))
          /\ gateway.published \in {<<>>, <<gateway.call>>}
    /\ (gateway.pc \in {"awaitPublish", "done"} /\ ~RequestAdmissible) =>
          gateway.call = JsUndefined /\ gateway.published = <<>>
    /\ (gateway.pc \in {"awaitPublish", "done"} /\ RequestAdmissible) =>
          gateway.call # JsUndefined

\* A keyed POST with a padded rfid was published, trimmed.
C32_Witness ==
    /\ gateway.pc = "done"
    /\ gateway.apiKey = ApiKeyK1
    /\ gateway.rfid = JsStr(S(<<" ", "A", "1", " ">>))
    /\ gateway.published = <<JsStr(B64Encode(JsonStringify(RfidA1, UserU1)))>>

\* C33: every request gets exactly one response, none while the publish
\* is awaited; status 200 is sent only after the publish succeeded, and a
\* failed publish is answered with status 500.
C33_OneResponsePerRequest ==
    /\ gateway.pc = "done" => Len(gateway.responses) = 1
    /\ gateway.pc = "awaitPublish" => gateway.responses = <<>>
    /\ (\E i \in DOMAIN gateway.responses : gateway.responses[i] = 200) =>
          gateway.settled = "published" /\ gateway.published = <<gateway.call>>
    /\ gateway.settled = "failed" => gateway.responses = <<500>>
    /\ gateway.settled = "published" => gateway.responses = <<200>>

\* The publish of an admissible request failed and was answered with 500.
C33_Witness ==
    /\ gateway.pc = "done"
    /\ RequestAdmissible
    /\ gateway.settled = "failed"
    /\ gateway.responses = <<500>>
    /\ gateway.published = <<>>

\* C34: the request the Web NFC page sends for a tag it has read is
\* accepted by the gateway, which publishes the tag's UID.
C34_PwaScanPublished ==
    (gateway.origin = "pwa" /\ gateway.pc \in {"awaitPublish", "done"}) =>
        /\ gateway.call # JsUndefined
        /\ gateway.call = GatewayMessage(gateway.rfid, gateway.webGatewayUserId)
        /\ gateway.responses \in {<<>>, <<200>>, <<500>>}
        /\ (gateway.responses = <<500>> => gateway.settled = "failed")

\* C35: whenever the firmware is in deep sleep (after a completed scan cycle,
\* after giving up on Wi-Fi or MQTT, or with the reader missing) the button
\* wake-up source is armed, so a button press starts a new scan cycle.
C35_AsleepIsArmed ==
    device.pc = "asleep" => device.armed /\ ENABLED press_button

\* C36: every wake cycle ends in deep sleep whatever the radio, the broker,
\* the reader and the tag do, and publishes at most one UID on the way.
C36_CycleEndsAsleep ==
    /\ (device.pc # "asleep") ~> (device.pc = "asleep")
    /\ [](Len(device.published) <= 1)

\* C37: setup_wifi gives up after 20 failed connection attempts and
\* reconnect_mqtt after 5.
C37_GivesUpAtLimit ==
    /\ device.pc = "asleep" /\ device.reason = "wifi" => device.retries = WifiRetryLimit
    /\ device.pc = "asleep" /\ device.reason = "mqtt" => device.retries = MqttRetryLimit

StoredIds(store) ==
    {d.id : d \in store}

\* C39: a document leaves the store only through a deletion confirmed in the
\* modal, and the confirmed document is the one whose Delete button was
\* clicked last; closing the modal without confirming deletes nothing and
\* clears the pending id, and with the modal closed no pending id remains.
C39_DeleteOnlyConfirmed ==
    /\ [][/\ \A id \in StoredIds(albums) \ StoredIds(albums') :
                \E docRef \in manager.deleting : docRef.id = id
          /\ \A docRef \in manager'.deleting \ manager.deleting :
                manager.modal /\ docRef.id = manager.clicked
          /\ manager.modal /\ ~manager'.modal =>
                /\ manager'.docToDeleteId = ""
                /\ manager'.deleting = manager.deleting => albums' = albums]_vars
    /\ [](~manager.modal => manager.docToDeleteId = "")

\* the row clicked last was confirmed and is gone; the modal is closed again
C39_Witness ==
    /\ manager.clicked # ""
    /\ manager.clicked \notin StoredIds(albums)
    /\ ~manager.modal
    /\ manager.docToDeleteId = ""
    /\ manager.deleting = {}

====
